---- MODULE Spec2Model ----
(***************************************************************************)
(* Transaction layer of the storage core: transaction manager (txn_begin,  *)
(* txn_commit, txn_abort), the per-database transaction op tree, the txn   *)
(* cursor (txn_cursor.c) and the committed-flush into the btree (Spec);    *)
(* the statements of the unit tests with the results they assert           *)
(* (SpecTests); the page cache (SpecCache); the btree node: the capacity   *)
(* computed by PaxNodeLayout, find_impl and the slot moves of insert,      *)
(* remove, split and the sibling shifts (SpecNode); the record lists of a  *)
(* node slot (SpecRecords); txn_begin when it fails, txn_commit and        *)
(* txn_abort on ended transactions and a longer cursor run (SpecCalls);    *)
(* the op-nodes under the comparator of the op tree (SpecTree).            *)
(***************************************************************************)
EXTENDS Integers, Sequences, FiniteSets, TLC

\* ------------------------------------------------------------------ bounds
MaxTxn == 2        \* transactions begun in one run
MaxOps == 2        \* ops appended to the op tree in one run
MaxKey == 2        \* user keys are 1..MaxKey, compared as integers
MaxRec == 2        \* record payloads are 1..MaxRec
MaxCursor == 1     \* txn cursors
MaxPage == 23      \* page ids of the page cache are 0..MaxPage - 1
MaxHits == 1       \* cache hits counted in one run
MaxSlot == 3       \* slots of the btree nodes whose arrays are modelled
MaxThreshold == 2  \* linear-search thresholds are 0..MaxThreshold

Keys == 1..MaxKey
Recs == 1..MaxRec
Cursors == 1..MaxCursor

\* ------------------------------------------------------------- constants
\* status codes
SUCCESS == "SUCCESS"
KEY_NOT_FOUND == "KEY_NOT_FOUND"
DUPLICATE_KEY == "DUPLICATE_KEY"
CURSOR_IS_NIL == "CURSOR_IS_NIL"
CURSOR_STILL_OPEN == "CURSOR_STILL_OPEN"
INTERNAL_ERROR == "INTERNAL_ERROR"
OUT_OF_MEMORY == "OUT_OF_MEMORY"
IO_ERROR == "IO_ERROR"
NETWORK_ERROR == "NETWORK_ERROR"
INV_PARAMETER == "INV_PARAMETER"

\* transaction state flags
TXN_STATE_COMMITTED == "COMMITTED"
TXN_STATE_ABORTED == "ABORTED"

\* op kinds
TXN_OP_INSERT == "INSERT"
TXN_OP_INSERT_OW == "INSERT_OW"
TXN_OP_ERASE == "ERASE"
TXN_OP_NOP == "NOP"

\* txn cursor flags
TXN_CURSOR_FLAG_COUPLED == "COUPLED"
TXN_CURSOR_FLAG_UNCOUPLED == "UNCOUPLED"

\* cursor move flags
HAM_CURSOR_FIRST == "FIRST"
HAM_CURSOR_LAST == "LAST"
HAM_CURSOR_NEXT == "NEXT"
HAM_CURSOR_PREVIOUS == "PREVIOUS"

\* insert flag
HAM_OVERWRITE == "OVERWRITE"

\* approximate-match flags of find
HAM_FIND_LT_MATCH == "LT"
HAM_FIND_GT_MATCH == "GT"
HAM_FIND_LEQ_MATCH == "LEQ"
HAM_FIND_GEQ_MATCH == "GEQ"

\* ----------------------------------------------------------------- state
VARIABLES
    env_txn_id,   \* the environment's transaction id counter
    txns,         \* the environment's txn list, in begin order: id, flags, cursor_refcount
    ops,          \* every op ever appended (op = index): txn, kind, key, rec
    optree,       \* op tree: key -> op chain (op indices, oldest first); <<>> = no op-node
    btree,        \* the btree as a map key -> record, 0 = key absent
    cursors,      \* txn cursors: open, txn, flags, coupled_op
    last,         \* the last call and what it returned
    bwriter,      \* history: per key, the txn whose op wrote the btree entry (0 = none)
    snap,         \* history: per txn, the txns committed when it did its first operation
    flushLog,     \* history: txns in the order the committed-flush applied them
    commitLog,    \* history: txns in the order txn_commit marked them COMMITTED
    abortedOk,    \* history: txns for which txn_abort returned success
    flushFailed,  \* history: txns whose txn_commit returned the error of its flush
    scan,         \* history: per cursor, keys returned since the last FIRST on an unchanged tree
    test,         \* unit tests: the test that is running, "none" between tests
    pc,           \* unit tests: number of statements of the running test already executed
    m_db,         \* unit tests: the database under test: btree keys, txn keys, key -> record
    envs,         \* unit tests: is_active of the test's environment and of the server's
    res,          \* unit tests: the statement executed last and the result the test asserts
    cache,        \* page cache: constructed, capacity_bytes, page_size_bytes
    totallist,    \* page cache: every cached page, most recently used first
    buckets,      \* page cache: the hash buckets, as pairs <<bucket, page>>
    changeset,    \* page cache: pages of the active changeset
    pinned,       \* page cache: pages a caller holds a reference to
    purged,       \* page cache: history of the purge pass, fresh until the next call
    layout,       \* btree node: what the PaxNodeLayout constructor computed
    m_node,       \* btree node: count and the key, flag and record arrays of the node
    other,        \* btree node: the same of its right sibling
    find,         \* btree node: the position of find_impl in its loop and its result
    nodeop,       \* btree node: history: the last layout operation and the nodes before it
    reclist,      \* record list: one slot's flag byte and record bytes, and the last call
    rbt           \* op tree: its op-nodes in tree order, each with the keys of its ops, and the last call

txnvars == <<env_txn_id, txns, ops, optree, btree, cursors, last, bwriter, snap,
             flushLog, commitLog, abortedOk, flushFailed, scan>>

testvars == <<test, pc, m_db, envs, res>>

cachevars == <<cache, totallist, buckets, changeset, pinned, purged>>

nodevars == <<layout, m_node, other, find, nodeop>>

recvars == <<reclist>>

treevars == <<rbt>>

vars == <<txnvars, testvars, cachevars, nodevars, recvars, treevars>>

\* call: the operation; st: its status; tst: the status of the txn-cursor half;
\* by: the op whose kind decided the walk; rec, src: the record returned and the
\* txn that wrote it; ub: the walk started from an op that was already freed
NoCall == [call |-> "none", txn |-> 0, cur |-> 0, key |-> 0, st |-> SUCCESS,
           tst |-> SUCCESS, by |-> 0, rec |-> 0, src |-> 0, ub |-> FALSE]

NilCursor == [open |-> FALSE, txn |-> 0, flags |-> {}, coupled_op |-> 0]

\* ------------------------------------------------------------ unit tests
\* a statement of a unit test together with what the test asserts about it:
\* op: the call; key, rec, flags: its arguments; handle: "env" or "null" for
\* ham_env_close; st: the asserted status; exp: the asserted key of find;
\* count: the asserted key count; active: the asserted env_is_active;
\* size, value: the asserted key.size and *(ham_offset_t *)key.data after an
\* insert into a record-number database; line: the line of the statement
NoStmt == [op |-> "none", key |-> <<>>, rec |-> <<>>, flags |-> "NONE", handle |-> "env",
           st |-> SUCCESS, exp |-> <<>>, count |-> 0, active |-> FALSE, size |-> 0,
           value |-> 0, line |-> 0]

\* no purge pass since the last call of the cache
NoPurge == [fresh |-> FALSE, triggered |-> FALSE, eligible |-> 0, victims |-> {}]

\* a database without keys in the btree and in the txn layer; is_recno: the
\* database assigns record numbers; recno: the last record number it assigned
EmptyDb == [btree |-> {}, txn |-> {}, is_recno |-> FALSE, recno |-> 0]

\* no layout constructed yet
NoLayout == [constructed |-> FALSE, pagesize |-> 0, key_size |-> 0, record_size |-> 0,
             usable_nodesize |-> 0, m_max_count |-> 0, ub |-> FALSE]

\* the arrays of a node with max slots, all bytes zero
NewNode(max) == [count |-> 0, keys |-> [i \in 0..(max - 1) |-> 0],
                 flags |-> [i \in 0..(max - 1) |-> 0],
                 records |-> [i \in 0..(max - 1) |-> 0]]

\* no search running. l, r, last, cmp: the locals of find_impl; slot, pcmp: what
\* it returned; exact: what find_exact makes of it; branch: the return
\* statement that answered
NoFind == [pc |-> "idle", key |-> 0, threshold |-> 0, l |-> 0, r |-> 0, last |-> 0,
           cmp |-> 0, slot |-> 0, pcmp |-> 0, exact |-> 0, branch |-> "none"]

\* no layout operation since the last search. slot, key, n, leaf: the arguments;
\* undoes: a remove of the slot the preceding insert filled
NoNodeOp == [op |-> "none", slot |-> 0, key |-> 0, n |-> 0, leaf |-> FALSE,
             undoes |-> FALSE]

\* no record list yet
NoRecList == [list |-> "none", m_record_size |-> 0, flags |-> {}, data |-> <<>>,
              op |-> "none", size |-> 0, ptr |-> <<>>, prior |-> {}, former |-> -1]

Init ==
    /\ env_txn_id = 0
    /\ txns = <<>>
    /\ ops = <<>>
    /\ optree = [k \in Keys |-> <<>>]
    /\ btree = [k \in Keys |-> 0]
    /\ cursors = [c \in Cursors |-> NilCursor]
    /\ last = NoCall
    /\ bwriter = [k \in Keys |-> 0]
    /\ snap = <<>>
    /\ flushLog = <<>>
    /\ commitLog = <<>>
    /\ abortedOk = {}
    /\ flushFailed = {}
    /\ scan = [c \in Cursors |-> [valid |-> FALSE, keys |-> <<>>]]
    /\ test = "none"
    /\ pc = 0
    /\ m_db = EmptyDb
    /\ envs = [env |-> FALSE, srv |-> FALSE]
    /\ res = NoStmt
    /\ cache = [constructed |-> FALSE, capacity_bytes |-> 0, page_size_bytes |-> 0,
                cache_hits |-> 0]
    /\ totallist = <<>>
    /\ buckets = {}
    /\ changeset = {}
    /\ pinned = {}
    /\ purged = NoPurge
    /\ layout = NoLayout
    /\ m_node = NewNode(0)
    /\ other = NewNode(0)
    /\ find = NoFind
    /\ nodeop = NoNodeOp
    /\ reclist = NoRecList
    /\ rbt = [nodes |-> <<>>, call |-> "none", key |-> 0, ret |-> 0, created |-> FALSE]

\* --------------------------------------------------------------- helpers
Handles == 1..Len(txns)

IsActive(tx, t) == tx[t].flags \cap {TXN_STATE_COMMITTED, TXN_STATE_ABORTED} = {}

CommittedSet(tx) == {t \in 1..Len(tx) : TXN_STATE_COMMITTED \in tx[t].flags}

\* position of op in a chain, 0 when it is not there
PosOf(chain, op) ==
    IF \E i \in 1..Len(chain) : chain[i] = op
    THEN CHOOSE i \in 1..Len(chain) : chain[i] = op
    ELSE 0

\* an op is live while it hangs in the chain of its op-node
IsLive(tree, op) == op \in 1..Len(ops) /\ PosOf(tree[ops[op].key], op) # 0

RemoveAt(s, i) == [j \in 1..(Len(s) - 1) |-> IF j < i THEN s[j] ELSE s[j + 1]]

\* ------------------------------------------------- transaction manager
\* txn_begin: id = env.txn_id + 1, stored back, txn linked into the env list
txn_begin_id(counter) == counter + 1

\* variant: the new id is not stored back as the counter
txn_begin_counter_stale(counter, id) == counter

txn_begin_counter(counter, id) == id

txn_begin ==
    /\ Len(txns) < MaxTxn
    /\ LET id == txn_begin_id(env_txn_id) IN
        /\ txns' = Append(txns, [id |-> id, flags |-> {}, cursor_refcount |-> 0])
        /\ env_txn_id' = txn_begin_counter(env_txn_id, id)
        /\ last' = [NoCall EXCEPT !.call = "begin", !.txn = Len(txns) + 1]
    /\ snap' = Append(snap, [set |-> FALSE, txns |-> {}])
    /\ UNCHANGED <<ops, optree, btree, cursors, bwriter, flushLog, commitLog, abortedOk, flushFailed, scan>>

\* ------------------------------------------------------- committed flush
\* apply one op to the btree map
ApplyOp(bt, o) ==
    IF ops[o].kind \in {TXN_OP_INSERT, TXN_OP_INSERT_OW}
    THEN [bt EXCEPT ![ops[o].key] = ops[o].rec]
    ELSE IF ops[o].kind = TXN_OP_ERASE
    THEN [bt EXCEPT ![ops[o].key] = 0]
    ELSE bt

ApplyWriter(bw, o) ==
    IF ops[o].kind \in {TXN_OP_INSERT, TXN_OP_INSERT_OW}
    THEN [bw EXCEPT ![ops[o].key] = ops[o].txn]
    ELSE IF ops[o].kind = TXN_OP_ERASE
    THEN [bw EXCEPT ![ops[o].key] = 0]
    ELSE bw

\* remove_op: detach the op from its node chain; an empty chain is no node
remove_op(tree, o) ==
    LET k == ops[o].key
        p == PosOf(tree[k], o)
    IN IF p = 0 THEN tree ELSE [tree EXCEPT ![k] = RemoveAt(tree[k], p)]

\* flush one txn: its ops, in append order, go into the btree and leave the tree
RECURSIVE flush_txn(_, _, _, _, _)
flush_txn(tree, bt, bw, t, o) ==
    IF o > Len(ops) THEN [tree |-> tree, bt |-> bt, bw |-> bw]
    ELSE IF ops[o].txn = t /\ IsLive(tree, o)
    THEN flush_txn(remove_op(tree, o), ApplyOp(bt, o), ApplyWriter(bw, o), t, o + 1)
    ELSE flush_txn(tree, bt, bw, t, o + 1)

\* env_flush_committed_txns: walk the env txn list from the oldest txn (id
\* order); a committed txn is flushed, an aborted one is passed over, the
\* first txn that is still active ends the walk
RECURSIVE env_flush_committed_txns(_, _, _, _, _, _)
env_flush_committed_txns(tx, tree, bt, bw, log, t) ==
    IF t > Len(tx) THEN [tree |-> tree, bt |-> bt, bw |-> bw, log |-> log]
    ELSE IF TXN_STATE_COMMITTED \in tx[t].flags
    THEN LET r == flush_txn(tree, bt, bw, t, 1)
             newlog == IF \E i \in 1..Len(log) : log[i] = t THEN log ELSE Append(log, t)
         IN env_flush_committed_txns(tx, r.tree, r.bt, r.bw, newlog, t + 1)
    ELSE IF TXN_STATE_ABORTED \in tx[t].flags
    THEN env_flush_committed_txns(tx, tree, bt, bw, log, t + 1)
    ELSE [tree |-> tree, bt |-> bt, bw |-> bw, log |-> log]

\* a scan stays comparable only while the op tree it walks is unchanged
ScanAfter(tree) ==
    IF tree = optree THEN scan
    ELSE [c \in Cursors |-> [valid |-> FALSE, keys |-> <<>>]]

\* the flush as txn_commit sees it: with io_ok it runs to its end; a write that
\* fails ends it with IO_ERROR and nothing applied, the ops stay where they are.
\* Only a flush that has an op to drain writes at all. No cursor is ever
\* registered on an op (couple_cursor), so the flush finds no cursor to uncouple.
flush_or_fail(tx, tree, bt, bw, log, io_ok) ==
    LET r == env_flush_committed_txns(tx, tree, bt, bw, log, 1) IN
    IF io_ok \/ r.tree = tree
    THEN [st |-> SUCCESS, tree |-> r.tree, bt |-> r.bt, bw |-> r.bw, log |-> r.log]
    ELSE [st |-> IO_ERROR, tree |-> tree, bt |-> bt, bw |-> bw, log |-> log]

\* txn_commit: refuse while cursors are attached; else set COMMITTED and return
\* what the flush returns
\* variant: the cursor_refcount test is missing
txn_commit_never_refuses(txn) == FALSE

txn_commit_refuses(txn) == txn.cursor_refcount # 0

txn_commit_flags(flags) == flags \cup {TXN_STATE_COMMITTED}

\* variant: the status of the flush is dropped
txn_commit_status_ok(flush_st) == SUCCESS

\* txn_commit returns the status of env_flush_committed_txns
txn_commit_status(flush_st) == flush_st

txn_commit(t, io_ok) ==
    IF txn_commit_refuses(txns[t])
    THEN /\ last' = [NoCall EXCEPT !.call = "commit", !.txn = t, !.st = CURSOR_STILL_OPEN]
         /\ UNCHANGED <<env_txn_id, txns, ops, optree, btree, cursors, bwriter, snap,
                        flushLog, commitLog, abortedOk, flushFailed, scan>>
    ELSE LET tx == [txns EXCEPT ![t].flags = txn_commit_flags(@)]
             r == flush_or_fail(tx, optree, btree, bwriter, flushLog, io_ok)
         IN /\ txns' = tx
            /\ optree' = r.tree
            /\ btree' = r.bt
            /\ bwriter' = r.bw
            /\ flushLog' = r.log
            /\ commitLog' = Append(commitLog, t)
            /\ flushFailed' = IF r.st = SUCCESS THEN flushFailed ELSE flushFailed \cup {t}
            /\ scan' = ScanAfter(r.tree)
            /\ last' = [NoCall EXCEPT !.call = "commit", !.txn = t,
                                      !.st = txn_commit_status(r.st)]
            /\ UNCHANGED <<env_txn_id, ops, cursors, snap, abortedOk>>

\* txn_abort: refuse while cursors are attached; else set ABORTED, ops stay
txn_abort_refuses(txn) == txn.cursor_refcount # 0

\* variant: the wrong state flag is set
txn_abort_flags_committed(flags) == flags \cup {TXN_STATE_COMMITTED}

txn_abort_flags(flags) == flags \cup {TXN_STATE_ABORTED}

txn_abort(t) ==
    IF txn_abort_refuses(txns[t])
    THEN /\ last' = [NoCall EXCEPT !.call = "abort", !.txn = t, !.st = CURSOR_STILL_OPEN]
         /\ UNCHANGED <<env_txn_id, txns, ops, optree, btree, cursors, bwriter, snap,
                        flushLog, commitLog, abortedOk, flushFailed, scan>>
    ELSE /\ txns' = [txns EXCEPT ![t].flags = txn_abort_flags(@)]
         /\ abortedOk' = abortedOk \cup {t}
         /\ last' = [NoCall EXCEPT !.call = "abort", !.txn = t, !.st = SUCCESS]
         /\ UNCHANGED <<env_txn_id, ops, optree, btree, cursors, bwriter, snap,
                        flushLog, commitLog, flushFailed, scan>>

\* ---------------------------------------------------------- op tree
\* tree order: op-nodes are the keys with a non-empty chain, ascending
Nodes(tree) == {k \in Keys : tree[k] # <<>>}

txn_opnode_get(tree, key) == IF tree[key] # <<>> THEN key ELSE 0

txn_tree_get_first(tree) ==
    IF Nodes(tree) = {} THEN 0 ELSE CHOOSE k \in Nodes(tree) : \A j \in Nodes(tree) : k <= j

txn_tree_get_last(tree) ==
    IF Nodes(tree) = {} THEN 0 ELSE CHOOSE k \in Nodes(tree) : \A j \in Nodes(tree) : k >= j

txn_tree_get_next_node(tree, node) ==
    LET later == {k \in Nodes(tree) : k > node}
    IN IF later = {} THEN 0 ELSE CHOOSE k \in later : \A j \in later : k <= j

txn_tree_get_previous_node(tree, node) ==
    LET earlier == {k \in Nodes(tree) : k < node}
    IN IF earlier = {} THEN 0 ELSE CHOOSE k \in earlier : \A j \in earlier : k >= j

txn_opnode_get_newest_op(chain) == Len(chain)

txn_opnode_get_oldest_op(chain) == IF Len(chain) = 0 THEN 0 ELSE 1

\* chain links, as positions in the chain (0 = null): the walk that starts at
\* the newest op follows next_in_node towards the older ops
txn_op_get_next_in_node(chain, pos) == pos - 1

txn_op_get_previous_in_node(chain, pos) == IF pos = Len(chain) THEN 0 ELSE pos + 1

\* append_op: a new op at the newest end of the key's chain
append_op(tree, key, o) == [tree EXCEPT ![key] = Append(@, o)]

\* ------------------------------------------------------------ txn cursor
\* the visibility test of __move_next_in_node / __move_previous_in_node
\* variant: every op that is not aborted counts as visible
IsVisible_unaborted(tx, reader, o) ==
    \/ ops[o].txn = reader
    \/ TXN_STATE_ABORTED \notin tx[ops[o].txn].flags

\* variant: the reader's own ops are not recognised
IsVisible_committed_only(tx, reader, o) ==
    TXN_STATE_COMMITTED \in tx[ops[o].txn].flags

IsVisible(tx, reader, o) ==
    \/ ops[o].txn = reader
    \/ TXN_STATE_COMMITTED \in tx[ops[o].txn].flags

\* variant: the loop gives up at the first op instead of walking on
move_next_loop_single(tx, reader, chain, pos) ==
    IF pos = 0 THEN [st |-> KEY_NOT_FOUND, op |-> 0, by |-> 0]
    ELSE LET o == chain[pos] IN
        IF IsVisible(tx, reader, o) /\ ops[o].kind \in {TXN_OP_INSERT, TXN_OP_INSERT_OW}
        THEN [st |-> SUCCESS, op |-> o, by |-> o]
        ELSE IF IsVisible(tx, reader, o) /\ ops[o].kind = TXN_OP_ERASE
        THEN [st |-> KEY_NOT_FOUND, op |-> 0, by |-> o]
        ELSE [st |-> KEY_NOT_FOUND, op |-> 0, by |-> 0]

\* the while loop of __move_next_in_node, from chain position pos
RECURSIVE move_next_loop(_, _, _, _)
move_next_loop(tx, reader, chain, pos) ==
    IF pos = 0 THEN [st |-> KEY_NOT_FOUND, op |-> 0, by |-> 0]
    ELSE LET o == chain[pos] IN
        IF IsVisible(tx, reader, o) /\ ops[o].kind \in {TXN_OP_INSERT, TXN_OP_INSERT_OW}
        THEN [st |-> SUCCESS, op |-> o, by |-> o]
        ELSE IF IsVisible(tx, reader, o) /\ ops[o].kind = TXN_OP_ERASE
        THEN [st |-> KEY_NOT_FOUND, op |-> 0, by |-> o]
        ELSE move_next_loop(tx, reader, chain, txn_op_get_next_in_node(chain, pos))

\* where __move_next_in_node enters its loop: at the newest op when op is
\* null, else (goto next) at the op after the given one
move_next_entry(chain, pos) ==
    IF pos = 0 THEN txn_opnode_get_newest_op(chain)
    ELSE txn_op_get_next_in_node(chain, pos)

move_next_in_node(tx, reader, chain, pos) ==
    move_next_loop(tx, reader, chain, move_next_entry(chain, pos))

\* the while loop of __move_previous_in_node
RECURSIVE move_previous_loop(_, _, _, _)
move_previous_loop(tx, reader, chain, pos) ==
    IF pos = 0 THEN [st |-> KEY_NOT_FOUND, op |-> 0, by |-> 0]
    ELSE LET o == chain[pos] IN
        IF IsVisible(tx, reader, o) /\ ops[o].kind \in {TXN_OP_INSERT, TXN_OP_INSERT_OW}
        THEN [st |-> SUCCESS, op |-> o, by |-> o]
        ELSE IF IsVisible(tx, reader, o) /\ ops[o].kind = TXN_OP_ERASE
        THEN [st |-> KEY_NOT_FOUND, op |-> 0, by |-> o]
        ELSE move_previous_loop(tx, reader, chain, txn_op_get_previous_in_node(chain, pos))

move_previous_in_node(tx, reader, chain, pos) ==
    move_previous_loop(tx, reader, chain,
        IF pos = 0 THEN txn_opnode_get_oldest_op(chain)
        ELSE txn_op_get_previous_in_node(chain, pos))

\* variant: no cursor counts as nil
txn_cursor_is_nil_never(cur) == FALSE

txn_cursor_is_nil(cur) ==
    /\ TXN_CURSOR_FLAG_COUPLED \notin cur.flags
    /\ TXN_CURSOR_FLAG_UNCOUPLED \notin cur.flags

\* txn_cursor_set_to_nil: clears the state flag; the op pointer is left as is
txn_cursor_set_to_nil(cur) ==
    IF TXN_CURSOR_FLAG_UNCOUPLED \in cur.flags
    THEN [cur EXCEPT !.flags = @ \ {TXN_CURSOR_FLAG_UNCOUPLED}]
    ELSE IF TXN_CURSOR_FLAG_COUPLED \in cur.flags
    THEN [cur EXCEPT !.flags = @ \ {TXN_CURSOR_FLAG_COUPLED}]
    ELSE cur

\* variant: the cursor is not set to nil first and both state flags end up set
couple_cursor_both(cur, o) ==
    [cur EXCEPT !.coupled_op = o,
                !.flags = @ \cup {TXN_CURSOR_FLAG_COUPLED, TXN_CURSOR_FLAG_UNCOUPLED}]

\* __couple_cursor: nil the cursor, store the op, set COUPLED
couple_cursor(cur, o) ==
    [txn_cursor_set_to_nil(cur) EXCEPT !.coupled_op = o,
                                       !.flags = @ \cup {TXN_CURSOR_FLAG_COUPLED}]

\* variant: a walk that finds nothing leaves the cursor nil
CursorAfter_nils(cur, r) ==
    IF r.st = SUCCESS THEN couple_cursor(cur, r.op) ELSE txn_cursor_set_to_nil(cur)

\* the cursor after a node walk returned r
CursorAfter(cur, r) == IF r.st = SUCCESS THEN couple_cursor(cur, r.op) ELSE cur

\* txn_cursor_find: nil the cursor, look the node up, resolve its chain
txn_cursor_find(tx, tree, reader, key) ==
    IF txn_opnode_get(tree, key) = 0
    THEN [st |-> KEY_NOT_FOUND, op |-> 0, by |-> 0]
    ELSE move_next_in_node(tx, reader, tree[key], 0)

\* the NEXT loop of txn_cursor_move: the current node from op on, then the
\* following nodes from their newest op
RECURSIVE move_next(_, _, _, _, _)
move_next(tx, tree, reader, node, pos) ==
    LET r == move_next_in_node(tx, reader, tree[node], pos) IN
    IF r.st = KEY_NOT_FOUND
    THEN LET n == txn_tree_get_next_node(tree, node) IN
         IF n = 0 THEN [st |-> KEY_NOT_FOUND, op |-> 0, by |-> r.by]
         ELSE move_next(tx, tree, reader, n, 0)
    ELSE r

\* the PREVIOUS loop of txn_cursor_move (it calls __move_next_in_node)
RECURSIVE move_previous(_, _, _, _, _)
move_previous(tx, tree, reader, node, pos) ==
    LET r == move_next_in_node(tx, reader, tree[node], pos) IN
    IF r.st = KEY_NOT_FOUND
    THEN LET n == txn_tree_get_previous_node(tree, node) IN
         IF n = 0 THEN [st |-> KEY_NOT_FOUND, op |-> 0, by |-> r.by]
         ELSE move_previous(tx, tree, reader, n, 0)
    ELSE r

\* ----------------------------------------------------------- coordinator
\* point read: a visible op that resolves the key answers it (an erase as
\* KEY_NOT_FOUND); otherwise the btree answers
db_find(tx, tree, bt, bw, reader, key) ==
    LET r == txn_cursor_find(tx, tree, reader, key) IN
    IF r.st = SUCCESS
    THEN [st |-> SUCCESS, rec |-> ops[r.op].rec, src |-> ops[r.op].txn, by |-> r.op, op |-> r.op]
    ELSE IF r.by # 0
    THEN [st |-> KEY_NOT_FOUND, rec |-> 0, src |-> 0, by |-> r.by, op |-> 0]
    ELSE IF bt[key] # 0
    THEN [st |-> SUCCESS, rec |-> bt[key], src |-> bw[key], by |-> 0, op |-> 0]
    ELSE [st |-> KEY_NOT_FOUND, rec |-> 0, src |-> 0, by |-> 0, op |-> 0]

\* the first operation of a txn fixes what was committed before it
MarkFirst(t) ==
    IF t = 0 \/ snap[t].set THEN snap
    ELSE [snap EXCEPT ![t] = [set |-> TRUE, txns |-> CommittedSet(txns)]]

NoScan == [valid |-> FALSE, keys |-> <<>>]

\* db_insert_txn: DUPLICATE_KEY for a key the txn can see unless OVERWRITE is
\* given; else a new INSERT / INSERT_OW op at the newest end of the chain
db_insert_txn(t, key, rec, flags, c) ==
    LET found == db_find(txns, optree, btree, bwriter, t, key) IN
    IF found.st = SUCCESS /\ flags # HAM_OVERWRITE
    THEN /\ last' = [NoCall EXCEPT !.call = "insert", !.txn = t, !.cur = c, !.key = key,
                                   !.rec = rec, !.st = DUPLICATE_KEY]
         /\ snap' = MarkFirst(t)
         /\ UNCHANGED <<env_txn_id, txns, ops, optree, btree, cursors, bwriter,
                        flushLog, commitLog, abortedOk, flushFailed, scan>>
    ELSE LET kind == IF flags = HAM_OVERWRITE THEN TXN_OP_INSERT_OW ELSE TXN_OP_INSERT
             o == Len(ops) + 1
         IN /\ ops' = Append(ops, [txn |-> t, kind |-> kind, key |-> key, rec |-> rec])
            /\ optree' = append_op(optree, key, o)
            /\ last' = [NoCall EXCEPT !.call = "insert", !.txn = t, !.cur = c, !.key = key,
                                      !.rec = rec, !.st = SUCCESS]
            /\ snap' = MarkFirst(t)
            /\ scan' = [x \in Cursors |-> NoScan]
            /\ UNCHANGED <<env_txn_id, txns, btree, cursors, bwriter,
                           flushLog, commitLog, abortedOk, flushFailed>>

\* txn_cursor_insert: db_insert_txn under the cursor's txn
txn_cursor_insert(c, key, rec, flags) ==
    db_insert_txn(cursors[c].txn, key, rec, flags, c)

\* db_erase_txn: KEY_NOT_FOUND for a key the txn cannot see, else an ERASE op
db_erase_txn(t, key) ==
    LET found == db_find(txns, optree, btree, bwriter, t, key) IN
    IF found.st # SUCCESS
    THEN /\ last' = [NoCall EXCEPT !.call = "erase", !.txn = t, !.key = key,
                                   !.st = KEY_NOT_FOUND]
         /\ snap' = MarkFirst(t)
         /\ UNCHANGED <<env_txn_id, txns, ops, optree, btree, cursors, bwriter,
                        flushLog, commitLog, abortedOk, flushFailed, scan>>
    ELSE /\ ops' = Append(ops, [txn |-> t, kind |-> TXN_OP_ERASE, key |-> key, rec |-> 0])
         /\ optree' = append_op(optree, key, Len(ops) + 1)
         /\ last' = [NoCall EXCEPT !.call = "erase", !.txn = t, !.key = key, !.st = SUCCESS]
         /\ snap' = MarkFirst(t)
         /\ scan' = [x \in Cursors |-> NoScan]
         /\ UNCHANGED <<env_txn_id, txns, btree, cursors, bwriter,
                        flushLog, commitLog, abortedOk, flushFailed>>

\* append_op with kind NOP
append_nop(t, key) ==
    /\ ops' = Append(ops, [txn |-> t, kind |-> TXN_OP_NOP, key |-> key, rec |-> 0])
    /\ optree' = append_op(optree, key, Len(ops) + 1)
    /\ last' = [NoCall EXCEPT !.call = "nop", !.txn = t, !.key = key]
    /\ snap' = MarkFirst(t)
    /\ scan' = [x \in Cursors |-> NoScan]
    /\ UNCHANGED <<env_txn_id, txns, btree, cursors, bwriter, flushLog, commitLog, abortedOk, flushFailed>>

\* ------------------------------------------------------- cursor actions
\* cursor_create: a cursor attached to a txn counts in its cursor_refcount;
\* t = 0 is a cursor created without a txn
cursor_create(c, t) ==
    /\ ~cursors[c].open
    /\ cursors' = [cursors EXCEPT ![c] = [NilCursor EXCEPT !.open = TRUE, !.txn = t]]
    /\ txns' = IF t = 0 THEN txns ELSE [txns EXCEPT ![t].cursor_refcount = @ + 1]
    /\ last' = [NoCall EXCEPT !.call = "cursor_create", !.txn = t, !.cur = c]
    /\ scan' = [scan EXCEPT ![c] = NoScan]
    /\ UNCHANGED <<env_txn_id, ops, optree, btree, bwriter, snap, flushLog, commitLog, abortedOk, flushFailed>>

\* cursor_close: txn_cursor_close nils the txn cursor; the txn loses the reference
txn_cursor_close(c) ==
    /\ cursors[c].open
    /\ cursors' = [cursors EXCEPT ![c] = [txn_cursor_set_to_nil(@) EXCEPT !.open = FALSE]]
    /\ txns' = IF cursors[c].txn = 0 THEN txns
                ELSE [txns EXCEPT ![cursors[c].txn].cursor_refcount = @ - 1]
    /\ last' = [NoCall EXCEPT !.call = "cursor_close", !.txn = cursors[c].txn, !.cur = c]
    /\ scan' = [scan EXCEPT ![c] = NoScan]
    /\ UNCHANGED <<env_txn_id, ops, optree, btree, bwriter, snap, flushLog, commitLog, abortedOk, flushFailed>>

\* cursor find: txn_cursor_find on the txn half, the btree when it resolves nothing
cursor_find(c, key) ==
    LET t == cursors[c].txn
        r == txn_cursor_find(txns, optree, t, key)
        f == db_find(txns, optree, btree, bwriter, t, key)
    IN /\ cursors[c].open
       /\ cursors' = [cursors EXCEPT ![c] = CursorAfter(txn_cursor_set_to_nil(@), r)]
       /\ last' = [call |-> "find", txn |-> t, cur |-> c, key |-> key, st |-> f.st,
                   tst |-> r.st, by |-> r.by, rec |-> f.rec, src |-> f.src, ub |-> FALSE]
       /\ snap' = MarkFirst(t)
       /\ scan' = [scan EXCEPT ![c] = NoScan]
       /\ UNCHANGED <<env_txn_id, txns, ops, optree, btree, bwriter, flushLog, commitLog, abortedOk, flushFailed>>

\* what a move returned, as the call record
MoveResult(c, flag, r, ub) ==
    [call |-> flag, txn |-> cursors[c].txn, cur |-> c,
     key |-> IF r.st = SUCCESS THEN ops[r.op].key ELSE 0, st |-> r.st, tst |-> r.st,
     by |-> r.by,
     rec |-> IF r.st = SUCCESS THEN ops[r.op].rec ELSE 0,
     src |-> IF r.st = SUCCESS THEN ops[r.op].txn ELSE 0, ub |-> ub]

MoveFrame ==
    UNCHANGED <<env_txn_id, txns, ops, optree, btree, bwriter, flushLog, commitLog, abortedOk, flushFailed>>

\* txn_cursor_move with HAM_CURSOR_FIRST
txn_cursor_move_first(c) ==
    LET t == cursors[c].txn
        node == txn_tree_get_first(optree)
        r == IF node = 0 THEN [st |-> KEY_NOT_FOUND, op |-> 0, by |-> 0]
             ELSE move_next_in_node(txns, t, optree[node], 0)
    IN /\ cursors[c].open
       /\ cursors' = [cursors EXCEPT ![c] = CursorAfter(txn_cursor_set_to_nil(@), r)]
       /\ last' = MoveResult(c, HAM_CURSOR_FIRST, r, FALSE)
       /\ scan' = [scan EXCEPT ![c] = [valid |-> TRUE,
                      keys |-> IF r.st = SUCCESS THEN <<ops[r.op].key>> ELSE <<>>]]
       /\ snap' = MarkFirst(t)
       /\ MoveFrame

\* txn_cursor_move with HAM_CURSOR_LAST
txn_cursor_move_last(c) ==
    LET t == cursors[c].txn
        node == txn_tree_get_last(optree)
        r == IF node = 0 THEN [st |-> KEY_NOT_FOUND, op |-> 0, by |-> 0]
             ELSE move_previous_in_node(txns, t, optree[node], 0)
    IN /\ cursors[c].open
       /\ cursors' = [cursors EXCEPT ![c] = CursorAfter(txn_cursor_set_to_nil(@), r)]
       /\ last' = MoveResult(c, HAM_CURSOR_LAST, r, FALSE)
       /\ scan' = [scan EXCEPT ![c] = NoScan]
       /\ snap' = MarkFirst(t)
       /\ MoveFrame

\* txn_cursor_move with HAM_CURSOR_NEXT or HAM_CURSOR_PREVIOUS
txn_cursor_move_step(c, flag) ==
    LET cur == cursors[c]
        t == cur.txn
        op == cur.coupled_op
    IN /\ cur.open
       /\ snap' = MarkFirst(t)
       /\ MoveFrame
       /\ IF txn_cursor_is_nil(cur)
          THEN /\ last' = [NoCall EXCEPT !.call = flag, !.txn = t, !.cur = c,
                                         !.st = CURSOR_IS_NIL, !.tst = CURSOR_IS_NIL]
               /\ UNCHANGED <<cursors, scan>>
          ELSE IF IsLive(optree, op)
          THEN LET node == ops[op].key
                   pos == PosOf(optree[node], op)
                   r == IF flag = HAM_CURSOR_NEXT
                        THEN move_next(txns, optree, t, node, pos)
                        ELSE move_previous(txns, optree, t, node, pos)
               IN /\ cursors' = [cursors EXCEPT ![c] = CursorAfter(@, r)]
                  /\ last' = MoveResult(c, flag, r, FALSE)
                  /\ scan' = [scan EXCEPT ![c] =
                        IF flag = HAM_CURSOR_NEXT /\ @.valid /\ r.st = SUCCESS
                        THEN [@ EXCEPT !.keys = Append(@, ops[r.op].key)]
                        ELSE IF flag = HAM_CURSOR_NEXT /\ @.valid THEN @
                        ELSE NoScan]
          \* the coupled op was flushed and freed: the walk reads freed memory
          ELSE \E st \in {SUCCESS, KEY_NOT_FOUND} : \E o \in 1..Len(ops) :
                  LET r == IF st = SUCCESS THEN [st |-> SUCCESS, op |-> o, by |-> o]
                           ELSE [st |-> KEY_NOT_FOUND, op |-> 0, by |-> 0]
                  IN /\ cursors' = [cursors EXCEPT ![c] = CursorAfter(@, r)]
                     /\ last' = MoveResult(c, flag, r, TRUE)
                     /\ scan' = [scan EXCEPT ![c] = NoScan]

\* txn_cursor_get_key: a coupled cursor copies the key of the op's node into the
\* caller's key, into a buffer of the db unless the caller brought one; alloc_ok
\* is FALSE when the resize of that buffer fails. Uncoupled gives INTERNAL_ERROR,
\* nil CURSOR_IS_NIL
txn_cursor_get_key(c, alloc_ok) ==
    LET cur == cursors[c]
        op == cur.coupled_op
        call == [NoCall EXCEPT !.call = "get_key", !.txn = cur.txn, !.cur = c]
    IN /\ cur.open
       /\ UNCHANGED <<env_txn_id, txns, ops, optree, btree, cursors, bwriter, snap,
                      flushLog, commitLog, abortedOk, flushFailed, scan>>
       /\ IF TXN_CURSOR_FLAG_COUPLED \in cur.flags
          THEN IF IsLive(optree, op)
               THEN IF ~alloc_ok
                    THEN last' = [call EXCEPT !.st = OUT_OF_MEMORY, !.tst = OUT_OF_MEMORY]
                    ELSE last' = [call EXCEPT !.key = ops[op].key]
               \* the coupled op was flushed and freed: the key is read from freed memory
               ELSE \E k \in Keys : last' = [call EXCEPT !.key = k, !.ub = TRUE]
          ELSE IF TXN_CURSOR_FLAG_UNCOUPLED \in cur.flags
          THEN last' = [call EXCEPT !.st = INTERNAL_ERROR, !.tst = INTERNAL_ERROR]
          ELSE last' = [call EXCEPT !.st = CURSOR_IS_NIL, !.tst = CURSOR_IS_NIL]

\* txn_cursor_get_record: the same for the record of the coupled op
txn_cursor_get_record(c, alloc_ok) ==
    LET cur == cursors[c]
        op == cur.coupled_op
        call == [NoCall EXCEPT !.call = "get_record", !.txn = cur.txn, !.cur = c]
    IN /\ cur.open
       /\ UNCHANGED <<env_txn_id, txns, ops, optree, btree, cursors, bwriter, snap,
                      flushLog, commitLog, abortedOk, flushFailed, scan>>
       /\ IF TXN_CURSOR_FLAG_COUPLED \in cur.flags
          THEN IF IsLive(optree, op)
               THEN IF ~alloc_ok
                    THEN last' = [call EXCEPT !.st = OUT_OF_MEMORY, !.tst = OUT_OF_MEMORY]
                    ELSE last' = [call EXCEPT !.rec = ops[op].rec]
               \* the coupled op was flushed and freed: the record is read from freed memory
               ELSE \E v \in Recs : last' = [call EXCEPT !.rec = v, !.ub = TRUE]
          ELSE IF TXN_CURSOR_FLAG_UNCOUPLED \in cur.flags
          THEN last' = [call EXCEPT !.st = INTERNAL_ERROR, !.tst = INTERNAL_ERROR]
          ELSE last' = [call EXCEPT !.st = CURSOR_IS_NIL, !.tst = CURSOR_IS_NIL]

\* ------------------------------------------------------------------ next
Begin ==
    /\ txn_begin
    /\ UNCHANGED <<testvars, cachevars, nodevars, recvars, treevars>>

Commit ==
    /\ \E t \in Handles, io_ok \in BOOLEAN : IsActive(txns, t) /\ txn_commit(t, io_ok)
    /\ UNCHANGED <<testvars, cachevars, nodevars, recvars, treevars>>

Abort ==
    /\ \E t \in Handles : IsActive(txns, t) /\ txn_abort(t)
    /\ UNCHANGED <<testvars, cachevars, nodevars, recvars, treevars>>

Insert ==
    /\ \E t \in Handles, k \in Keys, v \in Recs, f \in {"NONE", HAM_OVERWRITE} :
            /\ IsActive(txns, t)
            /\ Len(ops) < MaxOps
            /\ db_insert_txn(t, k, v, f, 0)
    /\ UNCHANGED <<testvars, cachevars, nodevars, recvars, treevars>>

CursorInsert ==
    /\ \E c \in Cursors, k \in Keys, v \in Recs, f \in {"NONE", HAM_OVERWRITE} :
            /\ cursors[c].open
            /\ cursors[c].txn # 0
            /\ Len(ops) < MaxOps
            /\ txn_cursor_insert(c, k, v, f)
    /\ UNCHANGED <<testvars, cachevars, nodevars, recvars, treevars>>

Erase ==
    /\ \E t \in Handles, k \in Keys :
            /\ IsActive(txns, t)
            /\ Len(ops) < MaxOps
            /\ db_erase_txn(t, k)
    /\ UNCHANGED <<testvars, cachevars, nodevars, recvars, treevars>>

Nop ==
    /\ \E t \in Handles, k \in Keys :
            /\ IsActive(txns, t)
            /\ Len(ops) < MaxOps
            /\ append_nop(t, k)
    /\ UNCHANGED <<testvars, cachevars, nodevars, recvars, treevars>>

CursorCreate ==
    /\ \E c \in Cursors, t \in Handles \cup {0} :
            /\ (IF t = 0 THEN TRUE ELSE IsActive(txns, t))
            /\ cursor_create(c, t)
    /\ UNCHANGED <<testvars, cachevars, nodevars, recvars, treevars>>

CursorClose ==
    /\ \E c \in Cursors : txn_cursor_close(c)
    /\ UNCHANGED <<testvars, cachevars, nodevars, recvars, treevars>>

CursorFind ==
    /\ \E c \in Cursors, k \in Keys : cursor_find(c, k)
    /\ UNCHANGED <<testvars, cachevars, nodevars, recvars, treevars>>

MoveFirst ==
    /\ \E c \in Cursors : txn_cursor_move_first(c)
    /\ UNCHANGED <<testvars, cachevars, nodevars, recvars, treevars>>

MoveLast ==
    /\ \E c \in Cursors : txn_cursor_move_last(c)
    /\ UNCHANGED <<testvars, cachevars, nodevars, recvars, treevars>>

MoveNext ==
    /\ \E c \in Cursors : txn_cursor_move_step(c, HAM_CURSOR_NEXT)
    /\ UNCHANGED <<testvars, cachevars, nodevars, recvars, treevars>>

MovePrevious ==
    /\ \E c \in Cursors : txn_cursor_move_step(c, HAM_CURSOR_PREVIOUS)
    /\ UNCHANGED <<testvars, cachevars, nodevars, recvars, treevars>>

GetKey ==
    /\ \E c \in Cursors, alloc_ok \in BOOLEAN : txn_cursor_get_key(c, alloc_ok)
    /\ UNCHANGED <<testvars, cachevars, nodevars, recvars, treevars>>

GetRecord ==
    /\ \E c \in Cursors, alloc_ok \in BOOLEAN : txn_cursor_get_record(c, alloc_ok)
    /\ UNCHANGED <<testvars, cachevars, nodevars, recvars, treevars>>

Next ==
    \/ Begin
    \/ Commit
    \/ Abort
    \/ Insert
    \/ CursorInsert
    \/ Erase
    \/ Nop
    \/ CursorCreate
    \/ CursorClose
    \/ CursorFind
    \/ MoveFirst
    \/ MoveLast
    \/ MoveNext
    \/ MovePrevious
    \/ GetKey
    \/ GetRecord

Spec == Init /\ [][Next]_vars

\* ------------------------------------------- calls outside the main run
\* txn_begin when it returns a status: the allocation of the txn fails
\* (alloc_ok = FALSE), or the append of the TXN_BEGIN record to the log fails
txn_begin_fails(alloc_ok) ==
    /\ Len(txns) < MaxTxn
    /\ IF ~alloc_ok
       THEN /\ last' = [NoCall EXCEPT !.call = "begin", !.st = OUT_OF_MEMORY]
            /\ UNCHANGED <<env_txn_id, txns, snap>>
       ELSE LET id == txn_begin_id(env_txn_id) IN
            /\ txns' = Append(txns, [id |-> id, flags |-> {}, cursor_refcount |-> 0])
            /\ env_txn_id' = txn_begin_counter(env_txn_id, id)
            /\ last' = [NoCall EXCEPT !.call = "begin", !.txn = Len(txns) + 1,
                                      !.st = IO_ERROR]
            /\ snap' = Append(snap, [set |-> FALSE, txns |-> {}])
    /\ UNCHANGED <<ops, optree, btree, cursors, bwriter, flushLog, commitLog, abortedOk, flushFailed, scan>>

BeginFails ==
    /\ \E alloc_ok \in BOOLEAN : txn_begin_fails(alloc_ok)
    /\ UNCHANGED <<testvars, cachevars, nodevars, recvars, treevars>>

\* txn_commit on a handle that txn_abort has ended
CommitAborted ==
    /\ \E t \in Handles, io_ok \in BOOLEAN :
            /\ txns[t].flags = {TXN_STATE_ABORTED}
            /\ txn_commit(t, io_ok)
    /\ UNCHANGED <<testvars, cachevars, nodevars, recvars, treevars>>

\* txn_abort on a handle that txn_commit has ended and whose flush is still
\* held back by an older txn
AbortCommitted ==
    /\ \E t \in Handles :
            /\ txns[t].flags = {TXN_STATE_COMMITTED}
            /\ \A i \in 1..Len(flushLog) : flushLog[i] # t
            /\ txn_abort(t)
    /\ UNCHANGED <<testvars, cachevars, nodevars, recvars, treevars>>

\* inserts and erases of a longer run: one op more than MaxOps, one record
InsertMore ==
    /\ \E t \in Handles, k \in Keys :
            /\ IsActive(txns, t)
            /\ Len(ops) < MaxOps + 1
            /\ db_insert_txn(t, k, 1, "NONE", 0)
    /\ UNCHANGED <<testvars, cachevars, nodevars, recvars, treevars>>

EraseMore ==
    /\ \E t \in Handles, k \in Keys :
            /\ IsActive(txns, t)
            /\ Len(ops) < MaxOps + 1
            /\ db_erase_txn(t, k)
    /\ UNCHANGED <<testvars, cachevars, nodevars, recvars, treevars>>

NextCalls ==
    \/ Begin
    \/ BeginFails
    \/ Commit
    \/ Abort
    \/ CommitAborted
    \/ AbortCommitted
    \/ InsertMore
    \/ EraseMore
    \/ CursorCreate
    \/ MoveFirst
    \/ MoveNext

SpecCalls == Init /\ [][NextCalls]_vars

\* ------------------------------------------------------------ unit tests
\* the bytes of a C string of decimal digits, the terminating NUL included
\* (k.size = strlen(s) + 1)
CStr(digits) == [i \in 1..(Len(digits) + 1) |->
                    IF i <= Len(digits) THEN 48 + digits[i] ELSE 0]

\* "hello world" and "hello chris", 12 bytes each
HelloWorld == <<104, 101, 108, 108, 111, 32, 119, 111, 114, 108, 100, 0>>

HelloChris == <<104, 101, 108, 108, 111, 32, 99, 104, 114, 105, 115, 0>>

\* the default key comparator: memcmp over the common length, then the length
db_default_compare(a, b) ==
    LET n == IF Len(a) < Len(b) THEN Len(a) ELSE Len(b)
        diff == {i \in 1..n : a[i] # b[i]}
    IN IF diff # {}
       THEN LET i == CHOOSE j \in diff : \A m \in diff : j <= m
            IN IF a[i] < b[i] THEN -1 ELSE 1
       ELSE IF Len(a) < Len(b) THEN -1 ELSE IF Len(a) > Len(b) THEN 1 ELSE 0

\* ApproxTest::insertBtree(s) and insertTxn(s): key s with record s, asserted
\* to return 0
SInsert(name, digits, ln) ==
    [NoStmt EXCEPT !.op = name, !.key = CStr(digits), !.rec = CStr(digits), !.line = ln]

\* ApproxTest::find(flags, search, expected), asserted to return 0
SFind(fl, search, expected, ln) ==
    [NoStmt EXCEPT !.op = "find", !.flags = fl, !.key = CStr(search),
                   !.exp = CStr(expected), !.line = ln]

\* a call of the environment or database API with its asserted status
SCall(name, status, ln) == [NoStmt EXCEPT !.op = name, !.st = status, !.line = ln]

lessThanTest ==
    << SInsert("insertBtree", <<1>>, 1502), SFind(HAM_FIND_LT_MATCH, <<2>>, <<1>>, 1503),
       SInsert("insertTxn", <<2>>, 1506), SFind(HAM_FIND_LT_MATCH, <<3>>, <<2>>, 1507),
       SInsert("insertBtree", <<1, 0>>, 1510), SInsert("insertTxn", <<1, 1>>, 1511),
       SFind(HAM_FIND_LT_MATCH, <<1, 1>>, <<1, 0>>, 1512),
       SInsert("insertTxn", <<2, 0>>, 1515), SInsert("insertBtree", <<2, 1>>, 1516),
       SFind(HAM_FIND_LT_MATCH, <<2, 1>>, <<2, 0>>, 1517),
       SInsert("insertBtree", <<3, 0>>, 1520), SInsert("insertBtree", <<3, 1>>, 1521),
       SFind(HAM_FIND_LT_MATCH, <<3, 1>>, <<3, 0>>, 1522),
       SInsert("insertTxn", <<4, 0>>, 1525), SInsert("insertTxn", <<4, 1>>, 1526),
       SFind(HAM_FIND_LT_MATCH, <<4, 1>>, <<4, 0>>, 1527) >>

lessOrEqualTest ==
    << SInsert("insertBtree", <<1>>, 1533), SFind(HAM_FIND_LEQ_MATCH, <<2>>, <<1>>, 1534),
       SInsert("insertBtree", <<2>>, 1537), SFind(HAM_FIND_LEQ_MATCH, <<2>>, <<2>>, 1538),
       SInsert("insertTxn", <<3>>, 1541), SFind(HAM_FIND_LEQ_MATCH, <<4>>, <<3>>, 1542),
       SInsert("insertTxn", <<4>>, 1545), SFind(HAM_FIND_LEQ_MATCH, <<5>>, <<4>>, 1546),
       SInsert("insertBtree", <<1, 0>>, 1549), SInsert("insertTxn", <<1, 1>>, 1550),
       SFind(HAM_FIND_LEQ_MATCH, <<1, 1>>, <<1, 0>>, 1551),
       SInsert("insertTxn", <<2, 0>>, 1554), SInsert("insertBtree", <<2, 1>>, 1555),
       SFind(HAM_FIND_LEQ_MATCH, <<2, 1>>, <<2, 0>>, 1556),
       SInsert("insertBtree", <<3, 0>>, 1559), SInsert("insertBtree", <<3, 1>>, 1560),
       SFind(HAM_FIND_LEQ_MATCH, <<3, 1>>, <<3, 0>>, 1561),
       SInsert("insertTxn", <<4, 0>>, 1564), SInsert("insertTxn", <<4, 1>>, 1565),
       SFind(HAM_FIND_LEQ_MATCH, <<4, 1>>, <<3, 0>>, 1566),
       SInsert("insertBtree", <<5, 0>>, 1569), SInsert("insertTxn", <<5, 1>>, 1570),
       SFind(HAM_FIND_LEQ_MATCH, <<5, 1>>, <<5, 1>>, 1571),
       SInsert("insertTxn", <<6, 0>>, 1574), SInsert("insertBtree", <<6, 1>>, 1575),
       SFind(HAM_FIND_LEQ_MATCH, <<6, 1>>, <<6, 1>>, 1576) >>

greaterThanTest ==
    << SInsert("insertBtree", <<2>>, 1582), SFind(HAM_FIND_GT_MATCH, <<1>>, <<2>>, 1583),
       SInsert("insertTxn", <<2>>, 1586), SFind(HAM_FIND_GT_MATCH, <<1>>, <<2>>, 1587),
       SInsert("insertTxn", <<1, 0>>, 1590), SInsert("insertBtree", <<1, 1>>, 1591),
       SFind(HAM_FIND_GT_MATCH, <<1, 0>>, <<1, 1>>, 1592),
       SInsert("insertBtree", <<2, 0>>, 1595), SInsert("insertTxn", <<2, 1>>, 1596),
       SFind(HAM_FIND_GT_MATCH, <<2, 0>>, <<2, 1>>, 1597),
       SInsert("insertBtree", <<3, 0>>, 1600), SInsert("insertBtree", <<3, 1>>, 1601),
       SFind(HAM_FIND_GT_MATCH, <<3, 0>>, <<3, 1>>, 1602),
       SInsert("insertTxn", <<4, 0>>, 1605), SInsert("insertTxn", <<4, 1>>, 1606),
       SFind(HAM_FIND_GT_MATCH, <<4, 0>>, <<4, 1>>, 1607) >>

greaterOrEqualTest ==
    << SInsert("insertBtree", <<1>>, 1613), SFind(HAM_FIND_GEQ_MATCH, <<0>>, <<1>>, 1614),
       SInsert("insertBtree", <<3>>, 1617), SFind(HAM_FIND_GEQ_MATCH, <<3>>, <<3>>, 1618),
       SInsert("insertTxn", <<5>>, 1621), SFind(HAM_FIND_GEQ_MATCH, <<4>>, <<5>>, 1622),
       SInsert("insertTxn", <<7>>, 1625), SFind(HAM_FIND_GEQ_MATCH, <<7>>, <<7>>, 1626),
       SInsert("insertTxn", <<1, 0>>, 1629), SInsert("insertBtree", <<1, 1>>, 1630),
       SFind(HAM_FIND_GEQ_MATCH, <<1, 0>>, <<1, 1>>, 1631),
       SInsert("insertBtree", <<2, 0>>, 1634), SInsert("insertTxn", <<2, 1>>, 1635),
       SFind(HAM_FIND_GEQ_MATCH, <<2, 0>>, <<2, 1>>, 1636),
       SInsert("insertBtree", <<3, 0>>, 1639), SInsert("insertBtree", <<3, 1>>, 1640),
       SFind(HAM_FIND_GEQ_MATCH, <<3, 0>>, <<3, 1>>, 1641),
       SInsert("insertTxn", <<4, 0>>, 1644), SInsert("insertTxn", <<4, 1>>, 1645),
       SFind(HAM_FIND_GEQ_MATCH, <<4, 0>>, <<4, 1>>, 1646),
       SInsert("insertBtree", <<5, 0>>, 1649), SInsert("insertTxn", <<5, 1>>, 1650),
       SFind(HAM_FIND_GEQ_MATCH, <<5, 1>>, <<5, 1>>, 1651),
       SInsert("insertTxn", <<6, 0>>, 1654), SInsert("insertBtree", <<6, 1>>, 1655),
       SFind(HAM_FIND_GEQ_MATCH, <<6, 1>>, <<6, 1>>, 1656) >>

invalidUrlTest ==
    << SCall("ham_env_new", SUCCESS, 921),
       SCall("ham_env_create", NETWORK_ERROR, 923),
       [SCall("ham_env_close", SUCCESS, 925) EXCEPT !.handle = "env"],
       SCall("ham_env_delete", SUCCESS, 927) >>

createCloseTest ==
    << SCall("ham_env_new", SUCCESS, 947),
       [SCall("env_is_active", SUCCESS, 948) EXCEPT !.active = FALSE],
       SCall("ham_env_create", SUCCESS, 950),
       [SCall("env_is_active", SUCCESS, 952) EXCEPT !.active = TRUE],
       [SCall("ham_env_close", INV_PARAMETER, 953) EXCEPT !.handle = "null"],
       [SCall("env_is_active", SUCCESS, 955) EXCEPT !.active = TRUE],
       [SCall("ham_env_close", SUCCESS, 956) EXCEPT !.handle = "env"],
       [SCall("env_is_active", SUCCESS, 957) EXCEPT !.active = FALSE],
       SCall("ham_env_delete", SUCCESS, 959) >>

createCloseOpenCloseTest ==
    << SCall("ham_env_new", SUCCESS, 966),
       SCall("ham_env_create", SUCCESS, 968),
       [SCall("ham_env_close", SUCCESS, 970) EXCEPT !.handle = "env"],
       [SCall("env_is_active", SUCCESS, 972) EXCEPT !.active = FALSE],
       SCall("ham_env_open", SUCCESS, 973),
       [SCall("env_is_active", SUCCESS, 975) EXCEPT !.active = TRUE],
       [SCall("ham_env_close", SUCCESS, 976) EXCEPT !.handle = "env"],
       [SCall("env_is_active", SUCCESS, 977) EXCEPT !.active = FALSE],
       SCall("ham_env_delete", SUCCESS, 979) >>

getKeyCountTest ==
    << SCall("ham_new", SUCCESS, 1269),
       SCall("ham_create", SUCCESS, 1270),
       [SCall("ham_get_key_count", SUCCESS, 1272) EXCEPT !.count = 0],
       SCall("ham_close", SUCCESS, 1275),
       SCall("ham_delete", SUCCESS, 1276) >>

insertTest ==
    << SCall("ham_new", SUCCESS, 1291),
       SCall("ham_create", SUCCESS, 1292),
       [SCall("ham_insert", SUCCESS, 1294)
            EXCEPT !.key = HelloWorld, !.rec = HelloChris, !.flags = "NONE"],
       [SCall("ham_get_key_count", SUCCESS, 1295) EXCEPT !.count = 1],
       [SCall("ham_insert", DUPLICATE_KEY, 1297)
            EXCEPT !.key = HelloWorld, !.rec = HelloChris, !.flags = "NONE"],
       [SCall("ham_insert", SUCCESS, 1298)
            EXCEPT !.key = HelloWorld, !.rec = HelloChris, !.flags = HAM_OVERWRITE],
       SCall("ham_close", SUCCESS, 1300),
       SCall("ham_delete", SUCCESS, 1301) >>

\* the 8 bytes of a record number in the byte order of the host (least
\* significant byte first)
RECURSIVE recno_bytes(_, _)
recno_bytes(n, size) ==
    IF size = 0 THEN <<>> ELSE <<n % 256>> \o recno_bytes(n \div 256, size - 1)

\* variant: every insert returns the first record number
recno_key_first(n) == recno_bytes(1, 8)

\* the key a record-number database returns: 8 bytes
recno_key(n) == recno_bytes(n, 8)

\* *(ham_offset_t *)key.data: the number the host reads from the 8 bytes
RECURSIVE as_offset(_)
as_offset(data) ==
    IF data = <<>> THEN 0 ELSE data[1] + 256 * as_offset(Tail(data))

\* database 33 of the server assigns record numbers; the second insert passes
\* the key structure the first insert filled
insertRecnoTest ==
    << SCall("ham_new", SUCCESS, 1318),
       SCall("ham_env_new", SUCCESS, 1319),
       SCall("ham_env_create", SUCCESS, 1320),
       SCall("ham_env_open_db", SUCCESS, 1322),
       [SCall("ham_insert", SUCCESS, 1325)
            EXCEPT !.key = <<>>, !.rec = HelloChris, !.size = 8, !.value = 1],
       [SCall("ham_insert", SUCCESS, 1329)
            EXCEPT !.key = recno_key(1), !.rec = HelloChris, !.size = 8, !.value = 2],
       SCall("ham_close", SUCCESS, 1333),
       [SCall("ham_env_close", SUCCESS, 1334) EXCEPT !.handle = "env"],
       SCall("ham_delete", SUCCESS, 1335),
       SCall("ham_env_delete", SUCCESS, 1336) >>

Scripts ==
    [lessThanTest |-> lessThanTest, lessOrEqualTest |-> lessOrEqualTest,
     greaterThanTest |-> greaterThanTest, greaterOrEqualTest |-> greaterOrEqualTest,
     invalidUrlTest |-> invalidUrlTest, createCloseTest |-> createCloseTest,
     createCloseOpenCloseTest |-> createCloseOpenCloseTest,
     getKeyCountTest |-> getKeyCountTest, insertTest |-> insertTest,
     insertRecnoTest |-> insertRecnoTest]

\* the tests of the RemoteTest fixture; its setup() starts the server environment
RemoteTests == {"invalidUrlTest", "createCloseTest", "createCloseOpenCloseTest",
                "getKeyCountTest", "insertTest", "insertRecnoTest"}

\* the statement the running test executes next
Stmt == IF test # "none" /\ pc < Len(Scripts[test]) THEN Scripts[test][pc + 1] ELSE NoStmt

\* the keys of a database, btree and txn layer together
db_keys(db) == {e.key : e \in db.btree \cup db.txn}

Put(layer, key, rec) == {e \in layer : e.key # key} \cup {[key |-> key, rec |-> rec]}

\* variant: the insert into the txn layer is lost
insertTxn_lost(db, key, st) == db

\* ham_insert(m_db, m_txn, ...): the key goes into the txn layer of the database
insertTxn(db, key, st) ==
    IF st = SUCCESS THEN [db EXCEPT !.txn = Put(@, key, key)] ELSE db

\* be->_fun_insert: the key goes into the btree, past the txn layer
insertBtree(db, key, st) ==
    IF st = SUCCESS THEN [db EXCEPT !.btree = Put(@, key, key)] ELSE db

\* ham_insert(db, 0, ...) of a database without transactions; a record-number
\* database stores the record under the next record number and returns that
\* number as the key
ham_insert(db, key, rec, st) ==
    IF st # SUCCESS THEN db
    ELSE IF db.is_recno
         THEN [db EXCEPT !.recno = @ + 1, !.btree = Put(@, recno_key(db.recno + 1), rec)]
         ELSE [db EXCEPT !.btree = Put(@, key, rec)]

ham_get_key_count(db) == Cardinality(db_keys(db))

\* ham_env_create / ham_env_open: the environment is active when the call succeeded
ham_env_create(e, st) == IF st = SUCCESS THEN [e EXCEPT !.env = TRUE] ELSE e

\* variant: the close leaves the environment active
ham_env_close_stays_active(e, handle, st) == e

\* ham_env_close: a null handle is refused; otherwise the environment is inactive
ham_env_close(e, handle, st) ==
    IF handle = "null" \/ st # SUCCESS THEN e ELSE [e EXCEPT !.env = FALSE]

\* setup() of the fixture: RemoteTest starts the server on a fresh m_srvenv,
\* ApproxTest creates m_db and begins m_txn
RunTest ==
    /\ test = "none"
    /\ \E t \in DOMAIN Scripts :
          /\ test' = t
          /\ envs' = [env |-> FALSE, srv |-> t \in RemoteTests]
    /\ pc' = 0
    /\ m_db' = EmptyDb
    /\ res' = NoStmt
    /\ UNCHANGED <<txnvars, cachevars, nodevars, recvars, treevars>>

\* teardown() after the last statement
Teardown ==
    /\ test # "none"
    /\ pc = Len(Scripts[test])
    /\ test' = "none"
    /\ pc' = 0
    /\ m_db' = EmptyDb
    /\ envs' = [env |-> FALSE, srv |-> FALSE]
    /\ res' = NoStmt
    /\ UNCHANGED <<txnvars, cachevars, nodevars, recvars, treevars>>

\* every statement: the result the test asserts becomes the observed result
Executes(opname) ==
    /\ test # "none"
    /\ Stmt.op = opname
    /\ pc' = pc + 1
    /\ res' = Stmt
    /\ UNCHANGED test

StmtInsertBtree ==
    /\ Executes("insertBtree")
    /\ m_db' = insertBtree(m_db, Stmt.key, Stmt.st)
    /\ UNCHANGED <<envs, txnvars, cachevars, nodevars, recvars, treevars>>

StmtInsertTxn ==
    /\ Executes("insertTxn")
    /\ m_db' = insertTxn(m_db, Stmt.key, Stmt.st)
    /\ UNCHANGED <<envs, txnvars, cachevars, nodevars, recvars, treevars>>

StmtInsert ==
    /\ Executes("ham_insert")
    /\ m_db' = ham_insert(m_db, Stmt.key, Stmt.rec, Stmt.st)
    /\ UNCHANGED <<envs, txnvars, cachevars, nodevars, recvars, treevars>>

\* ham_new, ham_create, ham_env_open_db, ham_close, ham_delete, ham_env_new,
\* ham_env_delete: ham_create leaves an empty database, ham_env_open_db opens
\* the empty record-number database of the server
StmtHandle ==
    /\ \E o \in {"ham_new", "ham_create", "ham_env_open_db", "ham_close", "ham_delete",
                  "ham_env_new", "ham_env_delete"} : Executes(o)
    /\ m_db' = IF Stmt.op = "ham_create" THEN EmptyDb
              ELSE IF Stmt.op = "ham_env_open_db" THEN [EmptyDb EXCEPT !.is_recno = TRUE]
              ELSE m_db
    /\ UNCHANGED <<envs, txnvars, cachevars, nodevars, recvars, treevars>>

\* find, ham_get_key_count, env_is_active: nothing changes
StmtQuery ==
    /\ \E o \in {"find", "ham_get_key_count", "env_is_active"} : Executes(o)
    /\ UNCHANGED <<m_db, envs, txnvars, cachevars, nodevars, recvars, treevars>>

StmtEnvCreate ==
    /\ \E o \in {"ham_env_create", "ham_env_open"} : Executes(o)
    /\ envs' = ham_env_create(envs, Stmt.st)
    /\ UNCHANGED <<m_db, txnvars, cachevars, nodevars, recvars, treevars>>

StmtEnvClose ==
    /\ Executes("ham_env_close")
    /\ envs' = ham_env_close(envs, Stmt.handle, Stmt.st)
    /\ UNCHANGED <<m_db, txnvars, cachevars, nodevars, recvars, treevars>>

NextTests ==
    \/ RunTest
    \/ Teardown
    \/ StmtInsertBtree
    \/ StmtInsertTxn
    \/ StmtInsert
    \/ StmtHandle
    \/ StmtQuery
    \/ StmtEnvCreate
    \/ StmtEnvClose

SpecTests == Init /\ [][NextTests]_vars


\* ------------------------------------------------------------ page cache
kBucketSize == 10317

kPurgeAtLeast == 20

\* the all-ones capacity of HAM_CACHE_UNLIMITED (0xffffffffffffffff), here the
\* largest integer of the model
kUnlimited == 2147483647

HAM_CACHE_UNLIMITED == "CACHE_UNLIMITED"

\* pages a caller reads, holds or dirties; page 0 is the header page
HotPages == 0..2

Pages == 0..(MaxPage - 1)

Cached == {totallist[i] : i \in DOMAIN totallist}

\* the bucket of a page: the page's address modulo kBucketSize
bucket_of(p) == (p * cache.page_size_bytes) % kBucketSize

is_metadata(p) == p = 0

\* variant: the changeset is not looked at
is_evictable_any_changeset(p, cs, pin) == ~is_metadata(p) /\ p \notin pin

\* a page the eviction scan may free: not pinned, not in the active changeset,
\* not a metadata page
is_evictable(p, cs, pin) == ~is_metadata(p) /\ p \notin pin /\ p \notin cs

bytes_used == Len(totallist) * cache.page_size_bytes

\* variant: the pass frees the excess over the capacity only
purge_limit_excess(n, cap, psize) == n - cap \div psize

\* the victims of one pass: the excess over the capacity, at least kPurgeAtLeast
purge_limit(n, cap, psize) ==
    IF n - cap \div psize < kPurgeAtLeast THEN kPurgeAtLeast ELSE n - cap \div psize

\* the first limit evictable pages of the scan, which starts at the tail
purge_victims(list, cs, pin, limit) ==
    LET idx == {i \in DOMAIN list : is_evictable(list[i], cs, pin)}
        later(i) == Cardinality({j \in idx : j > i})
    IN {list[i] : i \in {j \in idx : later(j) < limit}}

Without(list, ps) == SelectSeq(list, LAMBDA p : p \notin ps)

\* CacheState::CacheState(config)
CacheState ==
    /\ ~cache.constructed
    /\ \E flags \in {{}, {HAM_CACHE_UNLIMITED}}, cache_size_bytes \in {5} :
          cache' = [constructed |-> TRUE,
                    capacity_bytes |-> IF HAM_CACHE_UNLIMITED \in flags
                                       THEN kUnlimited ELSE cache_size_bytes,
                    page_size_bytes |-> 2,
                    cache_hits |-> 0]
    /\ UNCHANGED <<totallist, buckets, changeset, pinned, purged, txnvars, testvars, nodevars, recvars, treevars>>

\* put(page): the page enters the totallist at the head and its bucket; pages
\* are fetched in file order
cache_put ==
    /\ cache.constructed
    /\ \E p \in Pages \ Cached :
          /\ \A q \in Pages \ Cached : p <= q
          /\ totallist' = <<p>> \o totallist
          /\ buckets' = buckets \cup {<<bucket_of(p), p>>}
    /\ purged' = NoPurge
    /\ UNCHANGED <<cache, changeset, pinned, txnvars, testvars, nodevars, recvars, treevars>>

\* get(page_id): a hit is counted and moves the page to the head; the caller
\* may keep the reference
cache_get ==
    /\ cache.cache_hits < MaxHits
    /\ cache' = [cache EXCEPT !.cache_hits = @ + 1]
    /\ \E p \in HotPages \cap Cached, hold \in BOOLEAN :
          /\ <<bucket_of(p), p>> \in buckets
          /\ totallist' = <<p>> \o Without(totallist, {p})
          /\ pinned' = IF hold THEN pinned \cup {p} ELSE pinned
    /\ purged' = NoPurge
    /\ UNCHANGED <<buckets, changeset, txnvars, testvars, nodevars, recvars, treevars>>

\* the caller gives a reference back
cache_release ==
    /\ \E p \in pinned : pinned' = pinned \ {p}
    /\ purged' = NoPurge
    /\ UNCHANGED <<cache, totallist, buckets, changeset, txnvars, testvars, nodevars, recvars, treevars>>

\* mark_dirty(page, changeset)
mark_dirty ==
    /\ \E p \in (HotPages \cap Cached) \ changeset : changeset' = changeset \cup {p}
    /\ purged' = NoPurge
    /\ UNCHANGED <<cache, totallist, buckets, pinned, txnvars, testvars, nodevars, recvars, treevars>>

\* flush_changeset(cs): the pages are written and leave the changeset
flush_changeset ==
    /\ changeset # {}
    /\ changeset' = {}
    /\ purged' = NoPurge
    /\ UNCHANGED <<cache, totallist, buckets, pinned, txnvars, testvars, nodevars, recvars, treevars>>

\* purge_if_over_capacity()
purge_if_over_capacity ==
    /\ cache.constructed
    /\ LET full == bytes_used > cache.capacity_bytes
           limit == purge_limit(Len(totallist), cache.capacity_bytes, cache.page_size_bytes)
           victims == IF full THEN purge_victims(totallist, changeset, pinned, limit) ELSE {}
       IN /\ totallist' = Without(totallist, victims)
          /\ buckets' = {b \in buckets : b[2] \notin victims}
          /\ purged' = [fresh |-> TRUE, triggered |-> full,
                        eligible |-> Cardinality({p \in Cached :
                                                    is_evictable(p, changeset, pinned)}),
                        victims |-> victims]
    /\ UNCHANGED <<cache, changeset, pinned, txnvars, testvars, nodevars, recvars, treevars>>

NextCache ==
    \/ CacheState
    \/ cache_put
    \/ cache_get
    \/ cache_release
    \/ mark_dirty
    \/ flush_changeset
    \/ purge_if_over_capacity

SpecCache == Init /\ [][NextCache]_vars

\* ------------------------------------------------------------- btree node
\* the inputs of the PaxNodeLayout constructor: page sizes of the environment,
\* key sizes and record sizes of the database
PageSizes == {64, 1024}

KeySizes == {4, 8, 65535}

RecordSizes == {0, 8}

\* keys of a node, compared as integers
NodeKeys == 0..MaxSlot

\* PBtreeNode::get_entry_offset() + Page::sizeof_persistent_header
sizeof_headers == 24

\* the system key size is returned as ham_u16_t
get_system_keysize(keysize) == (keysize + 1) % 65536

\* the constructor: the capacity of the node and with it the start of the flag
\* and record regions. A divisor of zero is a division by zero, whose outcome
\* is not defined. The slots of a node are modelled for capacities up to MaxSlot
PaxNodeLayout ==
    /\ ~layout.constructed
    /\ \E pagesize \in PageSizes, key_size \in KeySizes, record_size \in RecordSizes,
          undefined \in {0, kUnlimited} :
          LET usable_nodesize == pagesize - sizeof_headers
              keysize == get_system_keysize(key_size)
              divisor == keysize + record_size
              m_max_count == IF divisor = 0 THEN undefined
                             ELSE usable_nodesize \div divisor
          IN /\ divisor # 0 => undefined = 0
             /\ layout' = [constructed |-> TRUE, pagesize |-> pagesize,
                           key_size |-> key_size, record_size |-> record_size,
                           usable_nodesize |-> usable_nodesize,
                           m_max_count |-> m_max_count, ub |-> divisor = 0]
             /\ m_node' = NewNode(IF divisor # 0 /\ m_max_count <= MaxSlot
                                THEN m_max_count ELSE 0)
             /\ other' = m_node'
    /\ UNCHANGED <<find, nodeop, txnvars, testvars, cachevars, recvars, treevars>>

\* the layout is one whose slots are modelled
Modelled == layout.constructed /\ ~layout.ub /\ layout.m_max_count \in 1..MaxSlot

\* the right sibling is a fresh page. Keys are searched, inserted and erased
\* in the node before it is rebalanced with its sibling
Unsplit == other = NewNode(layout.m_max_count)

\* memmove and memcpy of n array elements from src[s] to dst[d]
memmove(dst, d, src, s, n) ==
    [i \in DOMAIN dst |-> IF i >= d /\ i < d + n THEN src[s + (i - d)] ELSE dst[i]]

\* the scan of the window [start, start + count): the first slot whose key is
\* not smaller than the search key decides. Nothing is compared in an empty
\* window: the sign is then the one the caller's variable held
linear_search(keys, start, count, key, unset) ==
    LET ge == {c \in start..(start + count - 1) : key <= keys[c]}
    IN IF count = 0 THEN [slot |-> start - 1, cmp |-> unset]
       ELSE IF ge = {} THEN [slot |-> start + count - 1, cmp |-> 1]
       ELSE LET c == CHOOSE x \in ge : \A y \in ge : x <= y
            IN IF key = keys[c] THEN [slot |-> c, cmp |-> 0]
               ELSE [slot |-> c - 1, cmp |-> IF c = 0 THEN -1 ELSE 1]

\* variant: the midpoint is never recognised as the slot compared last
at_last_never(i, last_slot) == FALSE

\* if (i == last)
at_last(i, last_slot) == i = last_slot

\* one pass through the loop of find_impl, or the linear_search after it
find_impl(f, keys, unset) ==
    IF f.r - f.l > f.threshold
    THEN LET i == (f.l + f.r) \div 2
         IN IF at_last(i, f.last)
            THEN [f EXCEPT !.pc = "done", !.pcmp = 1, !.slot = i, !.branch = "last"]
            ELSE LET cmp == IF f.key < keys[i] THEN -1
                            ELSE IF f.key > keys[i] THEN 1 ELSE 0
                 IN IF cmp = 0
                    THEN [f EXCEPT !.pc = "done", !.cmp = cmp, !.pcmp = cmp, !.slot = i,
                                   !.branch = "equal"]
                    ELSE IF cmp < 0
                    THEN IF f.r = 0
                         THEN [f EXCEPT !.pc = "done", !.cmp = cmp, !.pcmp = cmp,
                                        !.slot = -1, !.branch = "r == 0"]
                         ELSE [f EXCEPT !.cmp = cmp, !.r = i]
                    ELSE [f EXCEPT !.cmp = cmp, !.last = i, !.l = i]
    ELSE LET found == linear_search(keys, f.l, f.r - f.l, f.key, unset)
         IN [f EXCEPT !.pc = "done", !.pcmp = found.cmp, !.slot = found.slot,
                      !.branch = "linear_search"]

\* variant: find_exact returns the slot whatever the sign
find_exact_any(r, cmp) == r

\* find_exact: the slot of find_impl if the key was found, else -1
find_exact(r, cmp) == IF cmp # 0 THEN -1 ELSE r

\* find_child and find_exact enter find_impl: l = 0, r = count, last = count + 1
find_child ==
    /\ Modelled
    /\ Unsplit
    /\ find.pc # "loop"
    /\ m_node.count > 0
    /\ \E key \in NodeKeys, threshold \in 0..MaxThreshold :
          find' = [NoFind EXCEPT !.pc = "loop", !.key = key, !.threshold = threshold,
                                 !.l = 0, !.r = m_node.count, !.last = m_node.count + 1,
                                 !.cmp = -1]
    /\ nodeop' = NoNodeOp
    /\ UNCHANGED <<layout, m_node, other, txnvars, testvars, cachevars, recvars, treevars>>

FindImplStep ==
    /\ find.pc = "loop"
    /\ \E unset \in {-1, 0, 1} :
          LET f == find_impl(find, m_node.keys, unset)
          IN find' = IF f.pc = "done"
                     THEN [f EXCEPT !.exact = find_exact(f.slot, f.pcmp)] ELSE f
    /\ UNCHANGED <<layout, m_node, other, nodeop, txnvars, testvars, cachevars, recvars, treevars>>

\* variant: the new key overwrites the slot, nothing is moved
insert_in_place(n, slot, key) ==
    [n EXCEPT !.keys[slot] = key, !.flags[slot] = 0, !.records[slot] = 0]

\* variant: the flag bytes are not moved with the keys and the records
insert_flags_stay(n, slot, key) ==
    IF n.count > slot
    THEN [n EXCEPT !.keys = [memmove(@, slot + 1, @, slot, n.count - slot)
                                EXCEPT ![slot] = key],
                   !.flags[slot] = 0,
                   !.records = [memmove(@, slot + 1, @, slot, n.count - slot)
                                EXCEPT ![slot] = 0]]
    ELSE [n EXCEPT !.keys[slot] = key, !.flags[slot] = 0, !.records[slot] = 0]

\* PaxNodeLayout::insert
insert(n, slot, key) ==
    IF n.count > slot
    THEN [n EXCEPT !.keys = [memmove(@, slot + 1, @, slot, n.count - slot)
                                EXCEPT ![slot] = key],
                   !.flags = [memmove(@, slot + 1, @, slot, n.count - slot)
                                EXCEPT ![slot] = 0],
                   !.records = [memmove(@, slot + 1, @, slot, n.count - slot)
                                EXCEPT ![slot] = 0]]
    ELSE [n EXCEPT !.keys[slot] = key, !.flags[slot] = 0, !.records[slot] = 0]

\* variant: remove moves nothing
remove_nothing(n, slot) == n

\* PaxNodeLayout::remove
remove(n, slot) ==
    IF slot # n.count - 1
    THEN [n EXCEPT !.keys = memmove(@, slot, @, slot + 1, n.count - slot - 1),
                   !.flags = memmove(@, slot, @, slot + 1, n.count - slot - 1),
                   !.records = memmove(@, slot, @, slot + 1, n.count - slot - 1)]
    ELSE n

\* variant: a split internal node keeps nothing back
split_with_pivot(n, o, pivot, leaf) ==
    [o EXCEPT !.keys = memmove(@, 0, n.keys, pivot, n.count - pivot),
              !.flags = memmove(@, 0, n.flags, pivot, n.count - pivot),
              !.records = memmove(@, 0, n.records, pivot, n.count - pivot)]

\* PaxNodeLayout::split: the arrays of other afterwards
split(n, o, pivot, leaf) ==
    IF leaf
    THEN [o EXCEPT !.keys = memmove(@, 0, n.keys, pivot, n.count - pivot),
                   !.flags = memmove(@, 0, n.flags, pivot, n.count - pivot),
                   !.records = memmove(@, 0, n.records, pivot, n.count - pivot)]
    ELSE [o EXCEPT !.keys = memmove(@, 0, n.keys, pivot + 1, n.count - pivot - 1),
                   !.flags = memmove(@, 0, n.flags, pivot + 1, n.count - pivot - 1),
                   !.records = memmove(@, 0, n.records, pivot + 1, n.count - pivot - 1)]

\* variant: the right sibling is not reduced
shift_from_right_copies(n, o, cnt) ==
    << [n EXCEPT !.keys = memmove(@, n.count, o.keys, 0, cnt),
                 !.flags = memmove(@, n.count, o.flags, 0, cnt),
                 !.records = memmove(@, n.count, o.records, 0, cnt)], o >>

\* PaxNodeLayout::shift_from_right: the arrays of this node and of other afterwards
shift_from_right(n, o, cnt) ==
    << [n EXCEPT !.keys = memmove(@, n.count, o.keys, 0, cnt),
                 !.flags = memmove(@, n.count, o.flags, 0, cnt),
                 !.records = memmove(@, n.count, o.records, 0, cnt)],
       [o EXCEPT !.keys = memmove(@, 0, @, cnt, o.count - cnt),
                 !.flags = memmove(@, 0, @, cnt, o.count - cnt),
                 !.records = memmove(@, 0, @, cnt, o.count - cnt)] >>

\* PaxNodeLayout::shift_to_right: the arrays of other afterwards
shift_to_right(n, o, slot, cnt) ==
    [o EXCEPT !.keys = memmove(memmove(@, cnt, @, 0, o.count), 0, n.keys, slot, cnt),
              !.flags = memmove(memmove(@, cnt, @, 0, o.count), 0, n.flags, slot, cnt),
              !.records = memmove(memmove(@, cnt, @, 0, o.count), 0, n.records, slot, cnt)]

\* the btree inserts the key find_child did not find behind the slot it
\* returned and counts it; the first key of an empty node goes to slot 0
NodeInsert ==
    /\ Modelled
    /\ Unsplit
    /\ m_node.count < layout.m_max_count
    /\ \E key \in NodeKeys :
          LET slot == IF m_node.count = 0 THEN 0 ELSE find.slot + 1
          IN /\ IF m_node.count = 0 THEN find.pc # "loop"
                ELSE find.pc = "done" /\ find.pcmp # 0 /\ find.key = key
             /\ m_node' = [insert(m_node, slot, key) EXCEPT !.count = @ + 1]
             /\ nodeop' = [NoNodeOp EXCEPT !.op = "insert", !.slot = slot, !.key = key]
    /\ find' = NoFind
    /\ UNCHANGED <<layout, other, txnvars, testvars, cachevars, recvars, treevars>>

\* the caller of insert sets the flags and the record id of the new slot; the
\* record id names the blob of the key
NodeSetRecord ==
    /\ Modelled
    /\ find.pc # "loop"
    /\ nodeop.op = "insert"
    /\ \E slot \in {nodeop.slot} :
          /\ m_node' = [m_node EXCEPT !.flags[slot] = 1 + (m_node.keys[slot] % 2),
                                     !.records[slot] = m_node.keys[slot] + 1]
          /\ nodeop' = [NoNodeOp EXCEPT !.op = "set_record", !.slot = slot]
    /\ find' = NoFind
    /\ UNCHANGED <<layout, other, txnvars, testvars, cachevars, recvars, treevars>>

\* the btree erases a slot and counts it
NodeErase ==
    /\ Modelled
    /\ Unsplit
    /\ find.pc # "loop"
    /\ \E slot \in 0..(m_node.count - 1) :
          /\ m_node' = [remove(m_node, slot) EXCEPT !.count = @ - 1]
          /\ nodeop' = [NoNodeOp EXCEPT
                            !.op = "remove", !.slot = slot,
                            !.undoes = nodeop.op = "insert" /\ nodeop.slot = slot]
    /\ find' = NoFind
    /\ UNCHANGED <<layout, other, txnvars, testvars, cachevars, recvars, treevars>>

\* the btree splits the node into its empty right sibling: a leaf keeps
\* [0, pivot), an internal node gives its pivot to the parent
NodeSplit ==
    /\ Modelled
    /\ find.pc # "loop"
    /\ other.count = 0
    /\ \E pivot \in 0..(m_node.count - 1), leaf \in BOOLEAN :
          /\ other' = [split(m_node, other, pivot, leaf) EXCEPT
                            !.count = IF leaf THEN m_node.count - pivot
                                      ELSE m_node.count - pivot - 1]
          /\ m_node' = [m_node EXCEPT !.count = pivot]
          /\ nodeop' = [NoNodeOp EXCEPT !.op = "split", !.slot = pivot, !.leaf = leaf]
    /\ find' = NoFind
    /\ UNCHANGED <<layout, txnvars, testvars, cachevars, recvars, treevars>>

\* rebalancing: the first n slots of the right sibling move to the end of this node
NodeShiftFromRight ==
    /\ Modelled
    /\ find.pc # "loop"
    /\ \E n \in 1..other.count :
          /\ m_node.count + n <= layout.m_max_count
          /\ LET moved == shift_from_right(m_node, other, n)
             IN /\ m_node' = [moved[1] EXCEPT !.count = @ + n]
                /\ other' = [moved[2] EXCEPT !.count = @ - n]
          /\ nodeop' = [NoNodeOp EXCEPT !.op = "shift_from_right", !.n = n]
    /\ find' = NoFind
    /\ UNCHANGED <<layout, txnvars, testvars, cachevars, recvars, treevars>>

\* rebalancing: the slots [slot, count) of this node move to the front of the
\* right sibling
NodeShiftToRight ==
    /\ Modelled
    /\ find.pc # "loop"
    /\ \E slot \in 0..(m_node.count - 1) :
          LET n == m_node.count - slot
          IN /\ other.count + n <= layout.m_max_count
             /\ other' = [shift_to_right(m_node, other, slot, n) EXCEPT !.count = @ + n]
             /\ m_node' = [m_node EXCEPT !.count = slot]
             /\ nodeop' = [NoNodeOp EXCEPT !.op = "shift_to_right", !.slot = slot,
                                           !.n = n]
    /\ find' = NoFind
    /\ UNCHANGED <<layout, txnvars, testvars, cachevars, recvars, treevars>>

NextNode ==
    \/ PaxNodeLayout
    \/ find_child
    \/ FindImplStep
    \/ NodeInsert
    \/ NodeSetRecord
    \/ NodeErase
    \/ NodeSplit
    \/ NodeShiftFromRight
    \/ NodeShiftToRight

\* a search that has started is run to its end
SpecNode == Init /\ [][NextNode]_vars /\ WF_vars(FindImplStep)

\* --------------------------------------------------- record lists of a node
\* One slot of a PAX node: its flag byte (m_flags[slot]) and its record bytes,
\* under each of the three record lists.  A flag byte is the set of the
\* BtreeKey bits it has set: `f & ~mask` is set difference, `f | bit` is union.
RecordLists == {"DefaultRecordList", "InternalRecordList", "InlineRecordList"}

SizeClassBits == {"kBlobSizeSmall", "kBlobSizeTiny", "kBlobSizeEmpty"}

KeyFlagBits == SizeClassBits \cup {"kDuplicates"}

sizeof_ham_u64_t == 8

\* the caller's buffers: 8 bytes, none of them zero or a record size
PtrBytes == {[i \in 1..sizeof_ham_u64_t |-> 16 * b + i] : b \in Recs}

Zeroed(data) == [i \in 1..Len(data) |-> 0]

\* memcpy(dst, src, n)
memcpy(dst, src, n) == [i \in 1..Len(dst) |-> IF i <= n THEN src[i] ELSE dst[i]]

is_record_inline(list, flags) ==
    IF list = "DefaultRecordList"
    THEN \/ "kBlobSizeTiny" \in flags
         \/ "kBlobSizeSmall" \in flags
         \/ "kBlobSizeEmpty" \in flags
    ELSE TRUE

get_inline_record_size(list, m_record_size, data, flags) ==
    IF list = "DefaultRecordList"
    THEN IF "kBlobSizeTiny" \in flags THEN data[sizeof_ham_u64_t]
         ELSE IF "kBlobSizeSmall" \in flags THEN sizeof_ham_u64_t
         ELSE 0
    ELSE IF list = "InternalRecordList" THEN sizeof_ham_u64_t
    ELSE m_record_size

\* set_record_data with the old size class left in the flags
set_record_data_keeps_class(list, data, flags, ptr, size) ==
    IF size = 0 THEN [data |-> Zeroed(data), flags |-> flags \cup {"kBlobSizeEmpty"}]
    ELSE IF size < sizeof_ham_u64_t
    THEN [data |-> memcpy([data EXCEPT ![sizeof_ham_u64_t] = size], ptr, size),
          flags |-> flags \cup {"kBlobSizeTiny"}]
    ELSE [data |-> memcpy(data, ptr, size), flags |-> flags \cup {"kBlobSizeSmall"}]

\* the record list's set_record_data: the new record bytes and the returned flags
set_record_data(list, data, flags, ptr, size) ==
    IF list = "DefaultRecordList"
    THEN LET cleared == flags \ {"kBlobSizeSmall", "kBlobSizeTiny", "kBlobSizeEmpty"}
         IN IF size = 0
            THEN [data |-> Zeroed(data), flags |-> cleared \cup {"kBlobSizeEmpty"}]
            ELSE IF size < sizeof_ham_u64_t
            THEN [data |-> memcpy([data EXCEPT ![sizeof_ham_u64_t] = size], ptr, size),
                  flags |-> cleared \cup {"kBlobSizeTiny"}]
            ELSE [data |-> memcpy(data, ptr, size),
                  flags |-> cleared \cup {"kBlobSizeSmall"}]
    ELSE IF list = "InternalRecordList"
    THEN [data |-> ptr,
          flags |-> flags \ {"kBlobSizeSmall", "kBlobSizeTiny", "kBlobSizeEmpty"}]
    ELSE [data |-> IF size # 0 THEN memcpy(data, ptr, size) ELSE data,
          flags |-> flags]

\* the record list's remove_record_inline: the record bytes and the returned flags
remove_record_inline(list, data, flags) ==
    IF list = "DefaultRecordList"
    THEN [data |-> Zeroed(data), flags |-> flags]
    ELSE IF list = "InternalRecordList"
    THEN [data |-> Zeroed(data),
          flags |-> flags \ {"kBlobSizeSmall", "kBlobSizeTiny", "kBlobSizeEmpty",
                             "kDuplicates"}]
    ELSE [data |-> Zeroed(data), flags |-> flags]

\* the node is created over one of the record lists; the fixed-size list takes
\* its record size from the database
RecordList ==
    /\ reclist.list = "none"
    /\ \E list \in RecordLists :
       \E m_record_size \in IF list = "InlineRecordList" THEN RecordSizes
                            ELSE {sizeof_ham_u64_t} :
          reclist' = [NoRecList EXCEPT !.list = list,
                                       !.m_record_size = m_record_size,
                                       !.data = [i \in 1..m_record_size |-> 0]]
    /\ UNCHANGED <<txnvars, testvars, cachevars, nodevars, treevars>>

\* PaxNodeLayout::set_flags(slot, flags)
set_flags ==
    /\ reclist.list # "none"
    /\ \E flags \in SUBSET KeyFlagBits :
          reclist' = [reclist EXCEPT !.flags = flags, !.op = "set_flags",
                                     !.prior = reclist.flags, !.former = -1]
    /\ UNCHANGED <<txnvars, testvars, cachevars, nodevars, treevars>>

\* PaxNodeLayout::set_record_data(slot, ptr, size)
SetRecordData ==
    /\ reclist.list # "none"
    /\ \E ptr \in PtrBytes :
       \E size \in IF reclist.list = "DefaultRecordList" THEN 0..sizeof_ham_u64_t
                   ELSE {reclist.m_record_size} :
          LET set == set_record_data(reclist.list, reclist.data, reclist.flags,
                                     ptr, size)
          IN reclist' = [reclist EXCEPT !.data = set.data, !.flags = set.flags,
                                        !.op = "set_record_data", !.size = size,
                                        !.ptr = ptr, !.prior = reclist.flags,
                                        !.former = -1]
    /\ UNCHANGED <<txnvars, testvars, cachevars, nodevars, treevars>>

\* PaxNodeLayout::remove_record_inline(slot), called on an inline record
RemoveRecordInline ==
    /\ reclist.list # "none"
    /\ is_record_inline(reclist.list, reclist.flags)
    /\ LET removed == remove_record_inline(reclist.list, reclist.data, reclist.flags)
       IN reclist' = [reclist EXCEPT
                         !.data = removed.data, !.flags = removed.flags,
                         !.op = "remove_record_inline", !.prior = reclist.flags,
                         !.former = get_inline_record_size(reclist.list,
                                        reclist.m_record_size, reclist.data,
                                        reclist.flags)]
    /\ UNCHANGED <<txnvars, testvars, cachevars, nodevars, treevars>>

NextRecords ==
    \/ RecordList
    \/ set_flags
    \/ SetRecordData
    \/ RemoveRecordInline

SpecRecords == Init /\ [][NextRecords]_vars

\* ------------------------------------------------ op-nodes of the op tree
\* __cmpfoo, the comparator rb_wrap generates the op tree with
cmpfoo(lhs, rhs) == 0

\* the search of the red-black tree: a descent from the root (the middle of the
\* nodes in tree order) that follows the comparator; found = 0 and the place
\* for a new node when the descent ends at a leaf
RECURSIVE rbt_search(_, _, _, _)
rbt_search(nodes, lo, hi, key) ==
    IF lo > hi THEN [found |-> 0, at |-> lo]
    ELSE LET mid == (lo + hi) \div 2
             c == cmpfoo(key, nodes[mid].key)
         IN IF c = 0 THEN [found |-> mid, at |-> mid]
            ELSE IF c < 0 THEN rbt_search(nodes, lo, mid - 1, key)
            ELSE rbt_search(nodes, mid + 1, hi, key)

InsertAt(s, i, x) ==
    [j \in 1..(Len(s) + 1) |-> IF j < i THEN s[j] ELSE IF j = i THEN x ELSE s[j - 1]]

\* the ops of all op-nodes from node i on
RECURSIVE OpsInTree(_, _)
OpsInTree(nodes, i) ==
    IF i > Len(nodes) THEN 0 ELSE Len(nodes[i].ops) + OpsInTree(nodes, i + 1)

\* a write of key: the op-node of the key is looked up, created when the search
\* finds none, and the op is appended to it
opnode_insert ==
    /\ \E key \in NodeKeys :
          LET r == rbt_search(rbt.nodes, 1, Len(rbt.nodes), key)
          IN /\ OpsInTree(rbt.nodes, 1) < MaxOps + 1
             /\ rbt' = [nodes |-> IF r.found # 0
                                  THEN [rbt.nodes EXCEPT ![r.found].ops = Append(@, key)]
                                  ELSE InsertAt(rbt.nodes, r.at,
                                                [key |-> key, ops |-> <<key>>]),
                        call |-> "insert", key |-> key, ret |-> r.at,
                        created |-> r.found = 0]
    /\ UNCHANGED <<txnvars, testvars, cachevars, nodevars, recvars>>

\* a read of key: txn_opnode_get
opnode_get ==
    /\ \E key \in NodeKeys :
          LET r == rbt_search(rbt.nodes, 1, Len(rbt.nodes), key)
          IN rbt' = [rbt EXCEPT !.call = "get", !.key = key, !.ret = r.found,
                                !.created = FALSE]
    /\ UNCHANGED <<txnvars, testvars, cachevars, nodevars, recvars>>

NextTree ==
    \/ opnode_insert
    \/ opnode_get

SpecTree == Init /\ [][NextTree]_vars

\* ---------------------------------------------------------------- claims
Range(f) == {f[i] : i \in DOMAIN f}

ReadCalls == {"find", HAM_CURSOR_FIRST, HAM_CURSOR_LAST, HAM_CURSOR_NEXT, HAM_CURSOR_PREVIOUS}

\* the visibility rule in the words of the design: the owner is the reader or is committed
RefVisible(reader, o) ==
    ops[o].txn = reader \/ TXN_STATE_COMMITTED \in txns[ops[o].txn].flags

\* the reference resolution of a chain: the newest visible op that is not a NOP decides
RefResolve(reader, chain) ==
    LET cand == {p \in 1..Len(chain) :
                    RefVisible(reader, chain[p]) /\ ops[chain[p]].kind # TXN_OP_NOP}
    IN IF cand = {} THEN [st |-> KEY_NOT_FOUND, op |-> 0, by |-> 0]
       ELSE LET p == CHOOSE q \in cand : \A x \in cand : x <= q
                o == chain[p]
            IN IF ops[o].kind = TXN_OP_ERASE
               THEN [st |-> KEY_NOT_FOUND, op |-> 0, by |-> o]
               ELSE [st |-> SUCCESS, op |-> o, by |-> o]

\* the chain a find or a FIRST resolved
ResolvedChain ==
    IF last.call = "find" THEN optree[last.key]
    ELSE IF txn_tree_get_first(optree) = 0 THEN <<>>
    ELSE optree[txn_tree_get_first(optree)]

C3_SnapshotOfFirstOp ==
    (last.call = "find" /\ last.st = SUCCESS /\ last.txn # 0 /\ last.src \notin {0, last.txn}) =>
        last.src \in snap[last.txn].txns

\* C4: txn_commit and txn_abort on a txn with cursor_refcount > 0 return
\* CURSOR_STILL_OPEN and change nothing: no flag is set, no flush runs, the op
\* tree and the btree stay as they are
C4_RefusedWhileCursorOpen ==
    [][(/\ last'.call \in {"commit", "abort"}
        /\ txns[last'.txn].cursor_refcount > 0)
       => (/\ last'.st = CURSOR_STILL_OPEN
           /\ UNCHANGED <<env_txn_id, txns, ops, optree, btree, cursors, flushLog>>)]_vars

\* a commit of a txn that holds ops was refused because a cursor is attached
C4_Witness ==
    /\ last.call = "commit"
    /\ last.st = CURSOR_STILL_OPEN
    /\ txns[last.txn].cursor_refcount > 0
    /\ \E o \in 1..Len(ops) : ops[o].txn = last.txn

C6_IdsStrictlyIncreasing ==
    /\ \A i, j \in Handles : i < j => txns[i].id < txns[j].id
    /\ \A i \in Handles : txns[i].id = i
    /\ env_txn_id = Len(txns)

\* a txn was begun after an earlier one had committed or aborted
C6_Witness ==
    /\ Len(txns) = 2
    /\ ~IsActive(txns, 1)
    /\ last.call = "begin"

\* C7: FIRST followed by NEXT until KEY_NOT_FOUND returns the keys in strictly
\* ascending order, no key twice, on every op tree
C7_ScanStrictlyAscending ==
    \A c \in Cursors : scan[c].valid =>
        \A i, j \in 1..Len(scan[c].keys) : i < j => scan[c].keys[i] < scan[c].keys[j]

BtreeAnswer(bt, k) == bt[k]

\* the answer of the composite for a reader that owns no op
CompositeAnswer(tx, tree, bt, bw, k) == db_find(tx, tree, bt, bw, 0, k).rec

NoCommittedOps(tx, tree) ==
    \A k \in Keys : \A p \in 1..Len(tree[k]) :
        TXN_STATE_COMMITTED \notin tx[ops[tree[k][p]].txn].flags

\* C9: once a commit-flush has drained the committed ops, the btree alone answers
\* every find as the composite of btree and op tree did before the flush
C9_FlushKeepsAnswers ==
    [][(flushLog' # flushLog /\ NoCommittedOps(txns', optree'))
       => \A k \in Keys :
            BtreeAnswer(btree', k) = CompositeAnswer(txns', optree, btree, bwriter, k)]_vars

\* replay of the ops of the txns of a sequence, txn by txn, on a btree map
RECURSIVE ReplayTxn(_, _, _)
ReplayTxn(bt, t, o) ==
    IF o > Len(ops) THEN bt
    ELSE ReplayTxn(IF ops[o].txn = t THEN ApplyOp(bt, o) ELSE bt, t, o + 1)

RECURSIVE Replay(_, _)
Replay(bt, order) ==
    IF order = <<>> THEN bt
    ELSE Replay(ReplayTxn(bt, Head(order), 1), Tail(order))

Flushed(order) == SelectSeq(order, LAMBDA t : t \in Range(flushLog))

\* C10: committed txns are flushed in txn-id order, and the btree equals the
\* serial application of the flushed txns in the order in which they committed
C10_CommitOrderSerial ==
    /\ \A i, j \in 1..Len(flushLog) : i < j => txns[flushLog[i]].id < txns[flushLog[j]].id
    /\ btree = Replay([k \in Keys |-> 0], Flushed(commitLog))

\* the txns a flush that runs to its end has drained: committed, no older txn active
Drained(tx, t) ==
    /\ TXN_STATE_COMMITTED \in tx[t].flags
    /\ \A u \in 1..(t - 1) : ~IsActive(tx, u)

\* C11: when the flush started by txn_commit fails, txn_commit returns the flush
\* error, the btree is unchanged, the txn stays COMMITTED with its ops still in
\* the op tree, and a later flush that runs to its end applies those ops
C11_FailedFlushRetried ==
    [][/\ (flushFailed' # flushFailed) =>
            /\ last'.call = "commit"
            /\ last'.st = IO_ERROR
            /\ btree' = btree
            /\ optree' = optree
            /\ flushLog' = flushLog
            /\ TXN_STATE_COMMITTED \in txns'[last'.txn].flags
            /\ \E o \in 1..Len(ops) :
                    /\ IsLive(optree', o)
                    /\ TXN_STATE_COMMITTED \in txns'[ops[o].txn].flags
       /\ (last'.call = "commit" /\ last'.st = SUCCESS) =>
            \A t \in 1..Len(txns') : Drained(txns', t) =>
                /\ t \in Range(flushLog')
                /\ \A o \in 1..Len(ops) : ops[o].txn = t => ~IsLive(optree', o)]_vars

\* the commit of a later txn flushed the ops of a txn whose own flush had failed
C11_Witness ==
    /\ last.call = "commit"
    /\ last.st = SUCCESS
    /\ \E t \in flushFailed :
          /\ t # last.txn
          /\ t \in Range(flushLog)
          /\ \E k \in Keys : bwriter[k] = t /\ btree[k] # 0

C13_CoupledOpIsLive ==
    \A c \in Cursors :
        (cursors[c].open /\ TXN_CURSOR_FLAG_COUPLED \in cursors[c].flags) =>
            IsLive(optree, cursors[c].coupled_op)

\* C14: get_key / get_record on a coupled cursor return success with a copy of
\* the key of the coupled op's node (the record of the coupled op); on an
\* uncoupled cursor they return INTERNAL_ERROR
C14_GetKeyRecordCopies ==
    (last.call \in {"get_key", "get_record"}) =>
        LET cur == cursors[last.cur] IN
        /\ TXN_CURSOR_FLAG_COUPLED \in cur.flags =>
              /\ last.st = SUCCESS
              /\ last.call = "get_key" => last.key = ops[cur.coupled_op].key
              /\ last.call = "get_record" => last.rec = ops[cur.coupled_op].rec
        /\ TXN_CURSOR_FLAG_UNCOUPLED \in cur.flags => last.st = INTERNAL_ERROR

\* the key of the set U next below k (LT) or next above k (GT), <<>> if none
Neighbour(U, k, fl) ==
    LET side == IF fl \in {HAM_FIND_LT_MATCH, HAM_FIND_LEQ_MATCH}
                THEN {m \in U : db_default_compare(m, k) < 0}
                ELSE {m \in U : db_default_compare(m, k) > 0}
    IN IF side = {} THEN <<>>
       ELSE CHOOSE m \in side : \A n \in side :
                IF fl \in {HAM_FIND_LT_MATCH, HAM_FIND_LEQ_MATCH}
                THEN db_default_compare(n, m) <= 0
                ELSE db_default_compare(n, m) >= 0

\* C15: find with FIND_LT_MATCH on k returns the greatest key strictly less than
\* k and find with FIND_GT_MATCH the smallest key strictly greater than k, over
\* the union of the btree keys and the txn keys, whichever layer holds the
\* neighbour and whichever layer holds k; k itself is never returned
C15_StrictNeighbourOfUnion ==
    (res.op = "find" /\ res.flags \in {HAM_FIND_LT_MATCH, HAM_FIND_GT_MATCH}) =>
        /\ res.st = SUCCESS
        /\ res.exp = Neighbour(db_keys(m_db), res.key, res.flags)
        /\ res.exp # <<>>
        /\ res.exp # res.key

\* LT on a key of the txn layer whose lower neighbour is a key of the btree,
\* while the txn layer holds other keys
C15_Witness ==
    /\ res.op = "find"
    /\ res.flags = HAM_FIND_LT_MATCH
    /\ res.key \in {e.key : e \in m_db.txn}
    /\ res.exp \in {e.key : e \in m_db.btree}
    /\ \E e \in m_db.txn : e.key # res.key

\* C16: find with FIND_LEQ_MATCH or FIND_GEQ_MATCH on k returns k itself
\* whenever k is in the btree or in the txn layer, whichever layer holds k and
\* its neighbours; only when k is in neither layer it returns the nearest
\* smaller (LEQ) or nearest greater (GEQ) key of the union
C16_EqualKeyWins ==
    (res.op = "find" /\ res.flags \in {HAM_FIND_LEQ_MATCH, HAM_FIND_GEQ_MATCH}) =>
        /\ res.st = SUCCESS
        /\ res.key \in db_keys(m_db) => res.exp = res.key
        /\ res.key \notin db_keys(m_db) =>
              res.exp = Neighbour(db_keys(m_db), res.key, res.flags)

\* C17: an insert of a key that already exists, without OVERWRITE, returns
\* DUPLICATE_KEY and leaves records and key count unchanged; with OVERWRITE it
\* succeeds, stores the record and leaves the key count unchanged; the key
\* count is the number of keys
C17_DuplicateRejected ==
    [][/\ (pc' = pc + 1 /\ res'.op \in {"ham_insert", "insertTxn"}
              /\ res'.key \in db_keys(m_db)) =>
            IF res'.flags = HAM_OVERWRITE
            THEN /\ res'.st = SUCCESS
                 /\ [key |-> res'.key, rec |-> res'.rec] \in m_db'.btree \cup m_db'.txn
                 /\ ham_get_key_count(m_db') = ham_get_key_count(m_db)
            ELSE /\ res'.st = DUPLICATE_KEY
                 /\ m_db' = m_db
       /\ (pc' = pc + 1 /\ res'.op = "ham_get_key_count") =>
            res'.count = ham_get_key_count(m_db')]_vars

C21_RecnoKeys ==
    (test = "insertRecnoTest" /\ res.op = "ham_insert" /\ res.st = SUCCESS) =>
        LET n == Cardinality({i \in 1..pc : Scripts[test][i].op = "ham_insert"
                                             /\ Scripts[test][i].st = SUCCESS})
        IN /\ m_db.is_recno
           /\ m_db.recno = n
           /\ \E e \in m_db.btree : /\ as_offset(e.key) = n
                                     /\ Len(e.key) = res.size
                                     /\ as_offset(e.key) = res.value
           /\ res.size = 8
           /\ {as_offset(e.key) : e \in m_db.btree} = 1..n
           /\ Cardinality(m_db.btree) = n

C21_Witness ==
    /\ test = "insertRecnoTest"
    /\ res.op = "ham_insert"
    /\ res.key # <<>>
    /\ m_db.recno = 2

\* C18: after every purge pass the cache holds no more than capacity_bytes of
\* evictable pages, and a pass that is triggered frees at least kPurgeAtLeast
\* pages unless fewer evictable pages exist
C18_PurgeBound ==
    purged.fresh =>
        /\ Cardinality({p \in Cached : is_evictable(p, changeset, pinned)})
               * cache.page_size_bytes <= cache.capacity_bytes
        /\ purged.triggered =>
              \/ Cardinality(purged.victims) >= kPurgeAtLeast
              \/ Cardinality(purged.victims) = purged.eligible

\* a pass freed more than kPurgeAtLeast pages and left evictable pages cached
C18_Witness ==
    /\ purged.fresh
    /\ purged.triggered
    /\ Cardinality(purged.victims) > kPurgeAtLeast
    /\ \E p \in Cached : is_evictable(p, changeset, pinned)

\* C19: no step removes a page of the active changeset, a pinned page or a
\* metadata page from the cache, and a page of the changeset is in the
\* totallist and in its hash bucket until the changeset is flushed
C19_ChangesetStaysCached ==
    [][/\ (Cached \ {totallist'[i] : i \in DOMAIN totallist'})
              \cap (changeset \cup pinned \cup {p \in Pages : is_metadata(p)}) = {}
       /\ \A p \in changeset' :
              /\ p \in {totallist'[i] : i \in DOMAIN totallist'}
              /\ <<bucket_of(p), p>> \in buckets']_vars

\* a triggered pass freed pages while the changeset, a pinned page and the
\* header page stayed in the cache
C19_Witness ==
    /\ purged.fresh
    /\ purged.victims # {}
    /\ changeset # {}
    /\ pinned \ changeset # {}
    /\ \E p \in Cached : is_metadata(p) /\ p \notin changeset \cup pinned

\* the keys of slots [0, count) are strictly increasing
SortedNode(n) ==
    \A i, j \in 0..(n.count - 1) : i < j => n.keys[i] < n.keys[j]

\* key, flag byte and record of a slot
SlotOf(n, i) == <<n.keys[i], n.flags[i], n.records[i]>>

\* the slots of a node followed by the slots of its right sibling
Concat(n, o) ==
    [i \in 0..(n.count + o.count - 1) |->
        IF i < n.count THEN SlotOf(n, i) ELSE SlotOf(o, i - n.count)]

\* C22: for a node with count > 0 and strictly increasing keys and for every
\* threshold, find_impl returns the slot of the key with cmp = 0 if the key is
\* in the node, else the greatest slot with a smaller key and cmp > 0, else -1
\* with cmp < 0; find_exact returns the slot if cmp = 0 and -1 otherwise
C22_FindMatchesReference ==
    (find.pc = "done" /\ m_node.count > 0 /\ SortedNode(m_node)) =>
        LET present == {i \in 0..(m_node.count - 1) : m_node.keys[i] = find.key}
            smaller == {i \in 0..(m_node.count - 1) : m_node.keys[i] < find.key}
        IN /\ present # {} => find.slot \in present /\ find.pcmp = 0
           /\ (present = {} /\ smaller # {}) =>
                 /\ find.slot \in smaller
                 /\ \A i \in smaller : i <= find.slot
                 /\ find.pcmp > 0
           /\ (present = {} /\ smaller = {}) => find.slot = -1 /\ find.pcmp < 0
           /\ find.exact = IF find.pcmp = 0 THEN find.slot ELSE -1

\* C23: with threshold 0 find_impl never calls linear_search, and a key smaller
\* than the key of slot 0 is answered by the `r == 0` branch of the loop with -1
C23_ThresholdZeroStaysInLoop ==
    (find.pc = "done" /\ find.threshold = 0) =>
        /\ find.branch # "linear_search"
        /\ find.key < m_node.keys[0] => find.branch = "r == 0" /\ find.slot = -1

\* C24: the loop of find_impl terminates for every count > 0, every threshold
\* and every key: a search that is in its loop reaches a return statement
C24_FindTerminates == (find.pc = "loop") ~> (find.pc = "done")

C24_Witness ==
    /\ find.pc = "done"
    /\ find.branch = "last"
    /\ find.l = find.slot
    /\ find.last = find.l
    /\ find.threshold = 0

\* C25: a key that find_child did not find, inserted behind the slot it
\* returned, leaves the keys strictly increasing, and no sequence of inserts,
\* erases, splits and shifts takes count above max
C25_InsertKeepsOrder ==
    Modelled =>
        /\ SortedNode(m_node)
        /\ SortedNode(other)
        /\ m_node.count <= layout.m_max_count
        /\ other.count <= layout.m_max_count

C25_Witness ==
    /\ nodeop.op = "insert"
    /\ nodeop.slot = 0
    /\ m_node.count = layout.m_max_count
    /\ m_node.count >= 3

\* C26: insert(slot, key) with slot <= count < max moves key, flag byte and
\* record of the slots [slot, count) one slot up together, writes the new key
\* with flag byte 0 and record 0, and leaves the slots below slot and above
\* count as they were
C26_InsertFrame ==
    [][NodeInsert =>
        LET slot == nodeop'.slot
            count == m_node.count
        IN /\ slot <= count
           /\ count < layout.m_max_count
           /\ m_node'.count = count + 1
           /\ \A i \in DOMAIN m_node.keys :
                 /\ i < slot => SlotOf(m_node', i) = SlotOf(m_node, i)
                 /\ i = slot => SlotOf(m_node', i) = <<nodeop'.key, 0, 0>>
                 /\ (i > slot /\ i <= count) => SlotOf(m_node', i) = SlotOf(m_node, i - 1)
                 /\ i > count => SlotOf(m_node', i) = SlotOf(m_node, i)]_vars

C26_Witness ==
    /\ nodeop.op = "insert"
    /\ nodeop.slot + 2 < m_node.count
    /\ m_node.flags[nodeop.slot + 1] # 0
    /\ m_node.flags[nodeop.slot + 1] # m_node.flags[nodeop.slot + 2]

\* C27: for every node, every slot <= count and every key, insert(slot, key),
\* the increment of count and remove(slot) restore keys, flags and records of
\* the slots [0, count)
C27_RemoveUndoesInsert ==
    (Modelled /\ m_node.count < layout.m_max_count) =>
        \A slot \in 0..m_node.count, key \in NodeKeys :
            LET inserted == [insert(m_node, slot, key) EXCEPT !.count = @ + 1]
                removed == remove(inserted, slot)
            IN \A i \in 0..(m_node.count - 1) : SlotOf(removed, i) = SlotOf(m_node, i)

C27_Witness ==
    /\ nodeop.op = "remove"
    /\ nodeop.undoes
    /\ nodeop.slot < m_node.count
    /\ m_node.count >= 2

\* C28: split copies the slots [pivot, count) of a leaf, [pivot + 1, count) of
\* an internal node, to the front of the empty sibling: the pivot is the first
\* key of the new leaf and is in neither half of an internal node; the arrays
\* of the split node are not written
C28_SplitCopies ==
    [][NodeSplit =>
        LET pivot == nodeop'.slot
            from == IF nodeop'.leaf THEN pivot ELSE pivot + 1
        IN /\ other'.count = m_node.count - from
           /\ \A i \in 0..(m_node.count - from - 1) :
                 SlotOf(other', i) = SlotOf(m_node, from + i)
           /\ m_node'.keys = m_node.keys
           /\ m_node'.flags = m_node.flags
           /\ m_node'.records = m_node.records
           /\ nodeop'.leaf => other'.keys[0] = m_node.keys[pivot]
           /\ ~nodeop'.leaf =>
                 /\ \A i \in 0..(other'.count - 1) : other'.keys[i] # m_node.keys[pivot]
                 /\ \A i \in 0..(m_node'.count - 1) : m_node'.keys[i] # m_node.keys[pivot]]_vars

C28_Witness ==
    /\ nodeop.op = "split"
    /\ ~nodeop.leaf
    /\ m_node.count >= 1
    /\ other.count >= 1
    /\ other.flags[0] # 0

\* C29: shift_from_right(other, n) and shift_to_right(other, slot, n) with
\* slot + n = count leave the slots of this node followed by the slots of
\* other as they were, for keys, flags and records
C29_ShiftsKeepConcatenation ==
    [][(NodeShiftFromRight \/ NodeShiftToRight) =>
        /\ Concat(m_node', other') = Concat(m_node, other)
        /\ nodeop'.op = "shift_from_right" =>
              /\ m_node'.count = m_node.count + nodeop'.n
              /\ other'.count = other.count - nodeop'.n
        /\ nodeop'.op = "shift_to_right" =>
              /\ nodeop'.slot + nodeop'.n = m_node.count
              /\ m_node'.count = nodeop'.slot
              /\ other'.count = other.count + nodeop'.n]_vars

C29_Witness ==
    /\ nodeop.op = "shift_from_right"
    /\ other.count >= 1
    /\ m_node.count > nodeop.n
    /\ other.flags[0] # 0

\* C30: for every page size, key size and record size the constructor's
\* capacity satisfies max_count * (key_size + 1 + record_size) <=
\* usable_nodesize, so the three regions end inside the page
C30_LayoutFitsPage ==
    layout.constructed =>
        IF layout.ub THEN FALSE
        ELSE layout.m_max_count * (layout.key_size + 1 + layout.record_size)
                <= layout.usable_nodesize

\* C31: DefaultRecordList::set_record_data for a record of s bytes (0..8) over
\* any prior flag byte f returns flags with exactly one size class, Empty for
\* s = 0, Tiny for 1..7, Small for 8, and every other bit of f as it was; after
\* it the record is inline, its inline size is s and the first s bytes of the
\* slot are the bytes written.
C31_SetRecordDataClass ==
    (reclist.op = "set_record_data" /\ reclist.list = "DefaultRecordList") =>
        /\ Cardinality(reclist.flags \cap SizeClassBits) = 1
        /\ ("kBlobSizeEmpty" \in reclist.flags) = (reclist.size = 0)
        /\ ("kBlobSizeTiny" \in reclist.flags) = (reclist.size \in 1..7)
        /\ ("kBlobSizeSmall" \in reclist.flags) = (reclist.size = 8)
        /\ reclist.flags \ SizeClassBits = reclist.prior \ SizeClassBits
        /\ is_record_inline(reclist.list, reclist.flags)
        /\ get_inline_record_size(reclist.list, reclist.m_record_size, reclist.data,
                                  reclist.flags) = reclist.size
        /\ \A i \in 1..reclist.size : reclist.data[i] = reclist.ptr[i]

C31_Witness ==
    /\ reclist.op = "set_record_data"
    /\ reclist.list = "DefaultRecordList"
    /\ reclist.size = 3
    /\ {"kDuplicates", "kBlobSizeSmall"} \subseteq reclist.prior
    /\ reclist.data[5] # 0

\* C32: under every record list remove_record_inline zeroes the slot's record
\* and clears the slot's size-class flags, so that a slot whose flags decide
\* whether a record is inline no longer reports an inline record of the former
\* size.
C32_RemoveClearsSizeClass ==
    reclist.op = "remove_record_inline" =>
        /\ reclist.data = Zeroed(reclist.data)
        /\ reclist.flags \cap SizeClassBits = {}
        /\ reclist.list = "DefaultRecordList" =>
              ~(/\ is_record_inline(reclist.list, reclist.flags)
                /\ get_inline_record_size(reclist.list, reclist.m_record_size,
                                          reclist.data, reclist.flags)
                      = reclist.former)

\* the first op-node after node whose chain resolves to a visible insert for
\* the reader, 0 when there is none
FirstInsertAfter(node, reader) ==
    LET later == {k \in Nodes(optree) : /\ k > node
                     /\ move_next_in_node(txns, reader, optree[k], 0).st = SUCCESS}
    IN IF later = {} THEN 0 ELSE CHOOSE k \in later : \A j \in later : k <= j

\* C33: after move(FIRST) returned KEY_NOT_FOUND because the newest visible op
\* of the first op-node is an ERASE, move(NEXT) on the same cursor succeeds and
\* couples the cursor to the first later op-node that has a visible insert.
C33_NextAfterErasedFirst ==
    [][(/\ last.call = HAM_CURSOR_FIRST
        /\ last.st = KEY_NOT_FOUND
        /\ last.by # 0
        /\ last'.call = HAM_CURSOR_NEXT
        /\ last'.cur = last.cur
        /\ FirstInsertAfter(ops[last.by].key, last.txn) # 0)
       => /\ last'.st = SUCCESS
          /\ last'.key = FirstInsertAfter(ops[last.by].key, last.txn)
          /\ TXN_CURSOR_FLAG_COUPLED \in cursors'[last.cur].flags
          /\ ops[cursors'[last.cur].coupled_op].key
                = FirstInsertAfter(ops[last.by].key, last.txn)]_vars

\* C34: a move NEXT or PREVIOUS that returns KEY_NOT_FOUND at the end of the op
\* tree leaves the cursor as it was: coupled to the same op, with the same flags.
C34_EndOfTreeKeepsCursor ==
    [][((MoveNext \/ MovePrevious) /\ last'.st = KEY_NOT_FOUND)
       => cursors' = cursors]_vars

C34_Witness ==
    /\ last.call = HAM_CURSOR_NEXT
    /\ last.st = KEY_NOT_FOUND
    /\ ~last.ub
    /\ TXN_CURSOR_FLAG_COUPLED \in cursors[last.cur].flags
    /\ IsLive(optree, cursors[last.cur].coupled_op)
    /\ Cardinality(Nodes(optree)) = 2

\* C35: move NEXT, move PREVIOUS, get_key and get_record on a nil cursor return
\* CURSOR_IS_NIL and leave the cursor, the op tree and the caller's key and
\* record as they were.
C35_NilCursorRefused ==
    [][(IF MoveNext \/ MovePrevious \/ GetKey \/ GetRecord
        THEN cursors[last'.cur].flags
                \cap {TXN_CURSOR_FLAG_COUPLED, TXN_CURSOR_FLAG_UNCOUPLED} = {}
        ELSE FALSE)
       => /\ last'.st = CURSOR_IS_NIL
          /\ cursors' = cursors
          /\ optree' = optree
          /\ ops' = ops
          /\ last'.key = 0
          /\ last'.rec = 0]_vars

C35_Witness ==
    /\ last.call = HAM_CURSOR_PREVIOUS
    /\ last.st = CURSOR_IS_NIL
    /\ Nodes(optree) # {}
    /\ cursors[last.cur].coupled_op # 0

\* C36: a cursor that passes the is-nil check of move NEXT / PREVIOUS is
\* coupled, and coupled to an op that is still in the op tree.
C36_MoveFromLiveOp ==
    [][(IF MoveNext \/ MovePrevious
        THEN ~txn_cursor_is_nil(cursors[last'.cur])
        ELSE FALSE)
       => /\ TXN_CURSOR_FLAG_COUPLED \in cursors[last'.cur].flags
          /\ IsLive(optree, cursors[last'.cur].coupled_op)]_vars

\* C37: over an op tree with one op-node, move(LAST) right after move(FIRST) on
\* the same cursor returns the same status and, on success, couples the cursor
\* to the same op.
C37_FirstLastAgree ==
    [][(/\ last.call = HAM_CURSOR_FIRST
        /\ last'.call = HAM_CURSOR_LAST
        /\ last'.cur = last.cur
        /\ Cardinality(Nodes(optree)) = 1)
       => /\ last'.st = last.st
          /\ last.st = SUCCESS =>
                cursors'[last.cur].coupled_op = cursors[last.cur].coupled_op]_vars

\* C38: no transaction ever carries both COMMITTED and ABORTED.
C38_TerminalStateExclusive ==
    \A t \in Handles :
        ~({TXN_STATE_COMMITTED, TXN_STATE_ABORTED} \subseteq txns[t].flags)

\* C39: a txn_begin that returns a status leaves the txn-id counter and the
\* environment's txn list as they were and hands no txn to the caller.
C39_FailedBeginNoEffect ==
    [][BeginFails => /\ env_txn_id' = env_txn_id
                     /\ txns' = txns
                     /\ last'.txn = 0]_vars

\* C40: the op tree has one op-node per user key: every op sits in the op-node
\* of its own key, a write gets the op-node of its key, and the op-nodes are in
\* ascending key order.
C40_OneNodePerKey ==
    /\ \A i \in 1..Len(rbt.nodes) : \A j \in 1..Len(rbt.nodes[i].ops) :
            rbt.nodes[i].ops[j] = rbt.nodes[i].key
    /\ rbt.call = "insert" => rbt.nodes[rbt.ret].key = rbt.key
    /\ \A i \in 1..Len(rbt.nodes) : \A j \in 1..Len(rbt.nodes) :
            i < j => rbt.nodes[i].key < rbt.nodes[j].key

====
